---- MODULE Spec2Model ----
(***************************************************************************)
(* A model of the csvencoding package: the Encoder (encode.go), the        *)
(* Decoder and its CellValues path tree (decode.go).                       *)
(*                                                                         *)
(* Strings are sequences of one-character strings, so that splitting,      *)
(* joining, formatting and parsing are computed and not assumed.           *)
(***************************************************************************)
EXTENDS Integers, Sequences, FiniteSets, TLC

VARIABLES
    tree,       \* the CellValues a caller is building with Set
    treeRet,    \* how the last CellValues.Set call ended
    encoder,    \* the Encoder of the caller: err, EmptyValue, NilValue
    writer,     \* the csv.Writer: the rows it took, its error
    encRet,     \* the last Encode call: its argument and what it returned
    decoder,    \* the Decoder of the caller: header, err, EmptyValue, NilValue
    reader,     \* the csv.Reader: its records, the next one to read
    target,     \* the record the caller decodes into: its type and value
    decRet      \* the last Decode call: what it returned and what it worked on

treeVars == <<tree, treeRet>>
encVars == <<encoder, writer, encRet>>
decVars == <<decoder, reader, target, decRet>>
vars == <<tree, treeRet, encoder, writer, encRet, decoder, reader, target, decRet>>

\* what a step of one component leaves alone
OnlyTree == UNCHANGED <<encVars, decVars>>
OnlyEncoder == UNCHANGED <<treeVars, decVars>>
OnlyDecoder == UNCHANGED <<treeVars, encVars>>

(***************************************************************************)
(* Strings                                                                 *)
(***************************************************************************)

\* index of the first occurrence of character c in s, 0 when there is none
IndexOf(s, c) ==
    IF \E i \in 1..Len(s) : s[i] = c
    THEN CHOOSE i \in 1..Len(s) : s[i] = c /\ \A j \in 1..(i-1) : s[j] # c
    ELSE 0

\* strings.SplitN(s, sep, 2) for a one-character separator
SplitN2(s, sep) ==
    LET i == IndexOf(s, sep) IN
    IF i = 0 THEN <<s>>
    ELSE <<SubSeq(s, 1, i-1), SubSeq(s, i+1, Len(s))>>

RECURSIVE Split(_, _)
\* strings.Split(s, sep) for a one-character separator
Split(s, sep) ==
    LET i == IndexOf(s, sep) IN
    IF i = 0 THEN <<s>>
    ELSE <<SubSeq(s, 1, i-1)>> \o Split(SubSeq(s, i+1, Len(s)), sep)

\* a Join that keeps the first element only
JoinFirstOnly(elems, sep) == IF Len(elems) = 0 THEN <<>> ELSE elems[1]

RECURSIVE Join(_, _)
\* strings.Join(elems, sep)
Join(elems, sep) ==
    IF Len(elems) = 0 THEN <<>>
    ELSE IF Len(elems) = 1 THEN elems[1]
    ELSE elems[1] \o sep \o Join(Tail(elems), sep)

(***************************************************************************)
(* CellValues: the path tree built from the header for one row             *)
(***************************************************************************)

\* CellValues{} : the map with no key
EmptyCellValues == [k \in {} |-> 0]

\* a map value holding a string (a cell of the row)
StringCell(s) == [kind |-> "string", str |-> s, sub |-> EmptyCellValues]

\* a map value holding a *CellValues
TreeCell(vs) == [kind |-> "tree", str |-> <<>>, sub |-> vs]

\* CellValues.Get: the value and whether the key is present
CellValuesGet(vs, key) ==
    IF key \in DOMAIN vs THEN [ok |-> TRUE, cell |-> vs[key]]
    ELSE [ok |-> FALSE, cell |-> StringCell(<<>>)]

RECURSIVE CellValuesSet(_, _, _)
\* CellValues.Set: the map after the call, and whether the call panicked
\* (the unchecked type assertion vs[headKey].(*CellValues) on a string)
CellValuesSet(vs, key, value) ==
    LET parts == SplitN2(key, ".")
        headKey == parts[1]
    IN  IF Len(parts) = 1
        THEN [panic |-> FALSE, vs |-> (headKey :> StringCell(value)) @@ vs]
        ELSE LET tail == parts[2]
                 vs1 == IF headKey \notin DOMAIN vs
                        THEN (headKey :> TreeCell(EmptyCellValues)) @@ vs
                        ELSE vs
             IN  IF vs1[headKey].kind # "tree"
                 THEN [panic |-> TRUE, vs |-> vs1]
                 ELSE LET r == CellValuesSet(vs1[headKey].sub, tail, value)
                      IN  [panic |-> r.panic,
                           vs |-> (headKey :> TreeCell(r.vs)) @@ vs1]

(***************************************************************************)
(* A caller building a CellValues with Set                                 *)
(***************************************************************************)

MaxSets == 3

\* dotted keys a caller inserts
SampleKeys ==
    { <<"a">>, <<"b">>, <<"a", ".", "b">>, <<"a", ".", "c">>,
      <<"a", ".", "b", ".", "c">>, <<"b", ".", "a">>,
      <<"m", "y", ".", "n", "e", "s", "t", "e", "d", ".", "s", "t", "r", "u", "c", "t">> }

\* cell values a caller inserts
SampleValues == { <<"h", "e", "n", "r", "y">>, <<"x">> }

NoTreeRet ==
    [calls |-> 0, key |-> <<>>, value |-> <<>>, before |-> EmptyCellValues,
     panic |-> FALSE]

\* no CellValues is being built by hand
TreeIdle ==
    /\ tree = EmptyCellValues
    /\ treeRet = NoTreeRet

\* values.Set(key, value); a panic ends the program
TreeSet(key, value) ==
    /\ treeRet.calls < MaxSets
    /\ ~treeRet.panic
    /\ LET r == CellValuesSet(tree, key, value) IN
       /\ tree' = r.vs
       /\ treeRet' = [calls |-> treeRet.calls + 1, key |-> key, value |-> value,
                      before |-> tree, panic |-> r.panic]
    /\ OnlyTree

TreeNext == \E key \in SampleKeys, value \in SampleValues : TreeSet(key, value)


(***************************************************************************)
(* Reading a CellValues                                                    *)
(***************************************************************************)

RECURSIVE WellFormed(_)
\* every value of the map is a string or a *CellValues that is itself well formed
WellFormed(vs) ==
    \A k \in DOMAIN vs :
        \/ vs[k].kind = "string" /\ vs[k].sub = EmptyCellValues
        \/ vs[k].kind = "tree" /\ vs[k].str = <<>> /\ WellFormed(vs[k].sub)

RECURSIVE NestedAt(_, _, _)
\* following the segments from vs passes through *CellValues only and ends in
\* the string value
NestedAt(vs, segs, value) ==
    /\ segs[1] \in DOMAIN vs
    /\ IF Len(segs) = 1
       THEN vs[segs[1]] = StringCell(value)
       ELSE /\ vs[segs[1]].kind = "tree"
            /\ NestedAt(vs[segs[1]].sub, Tail(segs), value)

RECURSIVE LeafPaths(_)
\* the paths (sequences of segments) of the strings held in vs, with their values
LeafPaths(vs) ==
    UNION { IF vs[k].kind = "string"
            THEN { [path |-> <<k>>, value |-> vs[k].str] }
            ELSE { [path |-> <<k>> \o l.path, value |-> l.value] :
                     l \in LeafPaths(vs[k].sub) }
          : k \in DOMAIN vs }

\* p is a prefix of q (or equal to it)
IsPrefix(p, q) == Len(p) <= Len(q) /\ SubSeq(q, 1, Len(p)) = p

\* C8: after any sequence of Set(path, value) on a CellValues that starts
\* empty, every leaf is a string and every internal node a CellValues; the
\* path of n segments just inserted leads through n-1 nested nodes to the
\* value; and the paths inserted before that branch off it keep their values.
C8_SetNestsEveryPath ==
    treeRet.calls > 0 =>
        LET segs == Split(treeRet.key, ".") IN
        /\ WellFormed(tree)
        /\ NestedAt(tree, segs, treeRet.value)
        /\ \A l \in LeafPaths(treeRet.before) :
               (~IsPrefix(l.path, segs) /\ ~IsPrefix(segs, l.path))
                   => NestedAt(tree, l.path, l.value)

(***************************************************************************)
(* strconv: the conversions between scalars and cells                      *)
(***************************************************************************)

DigitChars == <<"0", "1", "2", "3", "4", "5", "6", "7", "8", "9">>

LowerChars ==
    <<"a", "b", "c", "d", "e", "f", "g", "h", "i", "j", "k", "l", "m",
      "n", "o", "p", "q", "r", "s", "t", "u", "v", "w", "x", "y", "z">>

UpperChars ==
    <<"A", "B", "C", "D", "E", "F", "G", "H", "I", "J", "K", "L", "M",
      "N", "O", "P", "Q", "R", "S", "T", "U", "V", "W", "X", "Y", "Z">>

\* the place of c in the sequence of characters cs, 0 when it is not in it
PlaceIn(cs, c) ==
    IF \E i \in 1..Len(cs) : cs[i] = c
    THEN CHOOSE i \in 1..Len(cs) : cs[i] = c
    ELSE 0

IsDigit(c) == PlaceIn(DigitChars, c) # 0

\* lower(c) of strconv, unicode.ToLower on the model's characters
LowerChar(c) ==
    IF PlaceIn(UpperChars, c) # 0 THEN LowerChars[PlaceIn(UpperChars, c)] ELSE c

\* strings.ToLower
ToLower(s) == [i \in 1..Len(s) |-> LowerChar(s[i])]

\* 2^n and 10^n
RECURSIVE Pow(_, _)
Pow(b, n) == IF n = 0 THEN 1 ELSE b * Pow(b, n - 1)

RECURSIVE FormatUint(_)
\* the base-10 digits of n >= 0
FormatUint(n) ==
    IF n < 10 THEN <<DigitChars[n + 1]>>
    ELSE FormatUint(n \div 10) \o <<DigitChars[(n % 10) + 1]>>

\* a FormatInt that drops the sign
FormatIntUnsigned(i) == FormatUint(IF i < 0 THEN 0 - i ELSE i)

\* strconv.FormatInt(i, 10)
FormatInt(i) == IF i < 0 THEN <<"-">> \o FormatUint(0 - i) ELSE FormatUint(i)

\* strconv.FormatBool
FormatBool(b) ==
    IF b THEN <<"t", "r", "u", "e">> ELSE <<"f", "a", "l", "s", "e">>

\* strconv.ParseBool: the accepted spellings
ParseBool(s) ==
    IF s \in { <<"1">>, <<"t">>, <<"T">>, <<"T", "R", "U", "E">>,
               <<"t", "r", "u", "e">>, <<"T", "r", "u", "e">> }
    THEN [b |-> TRUE, err |-> ""]
    ELSE IF s \in { <<"0">>, <<"f">>, <<"F">>, <<"F", "A", "L", "S", "E">>,
                    <<"f", "a", "l", "s", "e">>, <<"F", "a", "l", "s", "e">> }
    THEN [b |-> FALSE, err |-> ""]
    ELSE [b |-> FALSE, err |-> "syntax"]

RECURSIVE UnderscoreScan(_, _, _)
\* the loop of strconv's underscoreOK: last is the class of the character before
UnderscoreScan(s, hex, last) ==
    IF Len(s) = 0 THEN last # "_"
    ELSE LET c == Head(s) IN
         IF IsDigit(c) \/ (hex /\ LowerChar(c) \in {"a", "b", "c", "d", "e", "f"})
         THEN UnderscoreScan(Tail(s), hex, "0")
         ELSE IF c = "_"
         THEN last = "0" /\ UnderscoreScan(Tail(s), hex, "_")
         ELSE last # "_" /\ UnderscoreScan(Tail(s), hex, "!")

\* strconv's underscoreOK: underscores only between digits, or after a base prefix
UnderscoreOK(s0) ==
    LET s == IF Len(s0) >= 1 /\ s0[1] \in {"-", "+"} THEN Tail(s0) ELSE s0
        prefixed == Len(s) >= 2 /\ s[1] = "0" /\ LowerChar(s[2]) \in {"b", "o", "x"}
    IN  IF prefixed
        THEN UnderscoreScan(SubSeq(s, 3, Len(s)), LowerChar(s[2]) = "x", "0")
        ELSE UnderscoreScan(s, FALSE, "^")

\* the largest value ParseUint accepts for a bit size. The cutoffs of 32 and
\* 64 bits lie above every number the model's cells spell, so no range error
\* is reachable for them; 0 stands for "no cutoff in reach".
MaxUintOf(bitSize) == IF bitSize \in {8, 16} THEN Pow(2, bitSize) - 1 ELSE 0

RECURSIVE ParseDigits(_, _, _, _)
\* the digit loop of strconv.ParseUint called with base 0
ParseDigits(s, base, maxVal, n) ==
    IF Len(s) = 0 THEN [n |-> n, err |-> ""]
    ELSE LET c == Head(s)
             d == IF IsDigit(c) THEN PlaceIn(DigitChars, c) - 1
                  ELSE IF PlaceIn(LowerChars, LowerChar(c)) # 0
                  THEN PlaceIn(LowerChars, LowerChar(c)) + 9
                  ELSE 99
         IN  IF c = "_" THEN ParseDigits(Tail(s), base, maxVal, n)
             ELSE IF d >= base THEN [n |-> 0, err |-> "syntax"]
             ELSE IF maxVal # 0 /\ n * base + d > maxVal
             THEN [n |-> maxVal, err |-> "range"]
             ELSE ParseDigits(Tail(s), base, maxVal, n * base + d)

\* strconv.ParseUint(s, 0, bitSize): the base comes from the prefix
ParseUint(s, bitSize) ==
    IF Len(s) = 0 THEN [n |-> 0, err |-> "syntax"]
    ELSE LET pre == IF s[1] # "0" THEN ""
                    ELSE IF Len(s) >= 3 /\ LowerChar(s[2]) \in {"b", "o", "x"}
                    THEN LowerChar(s[2])
                    ELSE "0"
             base == CASE pre = "" -> 10
                       [] pre = "b" -> 2
                       [] pre = "x" -> 16
                       [] OTHER -> 8
             rest == CASE pre = "" -> s
                       [] pre = "0" -> Tail(s)
                       [] OTHER -> SubSeq(s, 3, Len(s))
             r == ParseDigits(rest, base, MaxUintOf(bitSize), 0)
         IN  IF r.err # "" THEN r
             ELSE IF (\E i \in 1..Len(s) : s[i] = "_") /\ ~UnderscoreOK(s)
             THEN [n |-> 0, err |-> "syntax"]
             ELSE r

\* strconv.ParseInt(s, 0, bitSize)
ParseInt(s, bitSize) ==
    IF Len(s) = 0 THEN [i |-> 0, err |-> "syntax"]
    ELSE LET neg == s[1] = "-"
             body == IF s[1] \in {"+", "-"} THEN Tail(s) ELSE s
             u == ParseUint(body, bitSize)
             cutoff == IF bitSize \in {8, 16} THEN Pow(2, bitSize - 1) ELSE 0
         IN  IF u.err = "syntax" THEN [i |-> 0, err |-> "syntax"]
             ELSE IF cutoff # 0 /\ ~neg /\ u.n >= cutoff
             THEN [i |-> cutoff - 1, err |-> "range"]
             ELSE IF cutoff # 0 /\ neg /\ u.n > cutoff
             THEN [i |-> 0 - cutoff, err |-> "range"]
             ELSE IF u.err # "" THEN [i |-> 0, err |-> u.err]
             ELSE [i |-> IF neg THEN 0 - u.n ELSE u.n, err |-> ""]

(***************************************************************************)
(* Floats. A float is NaN, an infinity, or a finite float64, which is      *)
(* named by the shortest decimal that parses back to it, the one           *)
(* FormatFloat(f, 'f', -1, 64) prints: 0.d1d2...dn * 10^point with the     *)
(* digits d1 # 0 and dn # 0, and no digit for zero. The value of a float32 *)
(* field is the float64 that reflect.Value.Float() gives for it.           *)
(***************************************************************************)

Num(neg, digits, point) == [k |-> "num", neg |-> neg, digits |-> digits, point |-> point]
Infinity(neg) == [k |-> "inf", neg |-> neg, digits |-> <<>>, point |-> 0]
NaN == [k |-> "nan", neg |-> FALSE, digits |-> <<>>, point |-> 0]

\* f == 0 of Go: zero of either sign
IsFloatZero(f) == f.k = "num" /\ f.digits = <<>>

\* the number of zeros d starts with, and ends with
LeadingZeros(d) ==
    IF \A i \in 1..Len(d) : d[i] = 0 THEN Len(d)
    ELSE (CHOOSE i \in 1..Len(d) : d[i] # 0 /\ \A j \in 1..(i - 1) : d[j] = 0) - 1

TrailingZeros(d) ==
    IF \A i \in 1..Len(d) : d[i] = 0 THEN Len(d)
    ELSE Len(d) - (CHOOSE i \in 1..Len(d) : d[i] # 0 /\ \A j \in (i + 1)..Len(d) : d[j] = 0)

Zeros(n) == [i \in 1..n |-> 0]

\* A decimal of any length (strconv's decimal): the integer of digits d over
\* 10^s. Trimmed has no zero in front and no zero at the end of a fraction.
Trimmed(x) ==
    LET lz == LeadingZeros(x.d)
        tz == IF TrailingZeros(x.d) < x.s THEN TrailingZeros(x.d) ELSE x.s
    IN  IF lz = Len(x.d) THEN [d |-> <<>>, s |-> 0]
        ELSE [d |-> SubSeq(x.d, lz + 1, Len(x.d) - tz), s |-> x.s - tz]

IntDigits(x) == IF Len(x.d) > x.s THEN SubSeq(x.d, 1, Len(x.d) - x.s) ELSE <<>>
FracDigits(x) == IF Len(x.d) >= x.s THEN SubSeq(x.d, Len(x.d) - x.s + 1, Len(x.d))
                 ELSE Zeros(x.s - Len(x.d)) \o x.d

\* 2x and x/2, digit by digit: a digit of 5 or more carries into the digit
\* before it, an odd digit leaves 5 to the digit after it
Twice(x) ==
    LET n == Len(x.d) IN
    Trimmed([d |-> (IF n > 0 /\ x.d[1] >= 5 THEN <<1>> ELSE <<>>)
                   \o [i \in 1..n |->
                         (2 * x.d[i] + (IF i < n /\ x.d[i + 1] >= 5 THEN 1 ELSE 0)) % 10],
             s |-> x.s])

Half(x) ==
    LET n == Len(x.d) IN
    Trimmed([d |-> [i \in 1..(n + 1) |->
                      (IF i <= n THEN x.d[i] \div 2 ELSE 0)
                      + (IF i > 1 /\ x.d[i - 1] % 2 = 1 THEN 5 ELSE 0)],
             s |-> x.s + 1])

RECURSIVE Shifted(_, _)
\* x / 2^k (decimal.Shift(-k)), half of the shifts at a time; zero stays zero
Shifted(x, k) ==
    IF k = 0 \/ x.d = <<>> THEN x
    ELSE IF k = 1 THEN Half(x)
    ELSE IF k = -1 THEN Twice(x)
    ELSE Shifted(Shifted(x, k \div 2), k - (k \div 2))

\* -1, 0 or 1 as the integer of digits a is below, equal to or above that of b
\* (neither starts with a zero)
Compare(a, b) ==
    IF Len(a) # Len(b) THEN (IF Len(a) < Len(b) THEN -1 ELSE 1)
    ELSE IF a = b THEN 0
    ELSE LET i == CHOOSE i \in 1..Len(a) : a[i] # b[i] /\ \A j \in 1..(i - 1) : a[j] = b[j]
         IN  IF a[i] < b[i] THEN -1 ELSE 1

\* the integer of digits d plus one, and minus one (d is not zero)
Incr(d) ==
    IF \A i \in 1..Len(d) : d[i] = 9 THEN <<1>> \o Zeros(Len(d))
    ELSE LET j == CHOOSE j \in 1..Len(d) : d[j] # 9 /\ \A i \in (j + 1)..Len(d) : d[i] = 9
         IN  [i \in 1..Len(d) |-> IF i < j THEN d[i] ELSE IF i = j THEN d[i] + 1 ELSE 0]

Decr(d) ==
    LET j == CHOOSE j \in 1..Len(d) : d[j] # 0 /\ \A i \in (j + 1)..Len(d) : d[i] = 0
        r == [i \in 1..Len(d) |-> IF i < j THEN d[i] ELSE IF i = j THEN d[i] - 1 ELSE 9]
    IN  SubSeq(r, LeadingZeros(r) + 1, Len(r))

\* strconv's floatInfo of float32 and float64: 2^mantbits and 2^(mantbits+1)
\* in digits, the exponent of the smallest denormal, and that of the overflow
MantFloor(bitSize) ==
    IF bitSize = 32 THEN <<8, 3, 8, 8, 6, 0, 8>>
    ELSE <<4, 5, 0, 3, 5, 9, 9, 6, 2, 7, 3, 7, 0, 4, 9, 6>>
MantLimit(bitSize) ==
    IF bitSize = 32 THEN <<1, 6, 7, 7, 7, 2, 1, 6>>
    ELSE <<9, 0, 0, 7, 1, 9, 9, 2, 5, 4, 7, 4, 0, 9, 9, 2>>
MaxShift(bitSize) == IF bitSize = 32 THEN 149 ELSE 1074
OverflowShift(bitSize) == IF bitSize = 32 THEN 24 - 128 ELSE 53 - 1024

\* the number of digits x # 0 has before its point (none or less for a fraction)
Magnitude(x) == Len(x.d) - x.s

MaxStep == 2048

RECURSIVE ToBinary(_, _, _, _)
\* x # 0 as y / 2^k with MantFloor <= y < MantLimit, or with a smaller y for a
\* denormal (k = MaxShift): the shifts of decimal.floatBits, taken step at a
\* time, the steps halving from MaxStep; a step is tried when the size of x
\* leaves room for it (10^3 < 2^10)
ToBinary(x, k, step, bitSize) ==
    IF step = 0 THEN [y |-> x, k |-> k]
    ELSE IF /\ Magnitude(x) > (3 * step) \div 10
            /\ Compare(IntDigits(Shifted(x, step)), MantFloor(bitSize)) >= 0
    THEN ToBinary(Shifted(x, step), k - step, step \div 2, bitSize)
    ELSE IF /\ Magnitude(x) + (3 * step) \div 10 < 18
            /\ k + step <= MaxShift(bitSize)
            /\ Compare(IntDigits(Shifted(x, 0 - step)), MantLimit(bitSize)) < 0
    THEN ToBinary(Shifted(x, 0 - step), k + step, step \div 2, bitSize)
    ELSE ToBinary(x, k, step \div 2, bitSize)

\* y rounded to an integer, a half to the even one
RoundHalfEven(y) ==
    LET int == IntDigits(y)
        frac == FracDigits(y)
        up == /\ Len(frac) > 0
              /\ \/ frac[1] > 5
                 \/ /\ frac[1] = 5
                    /\ \/ \E i \in 2..Len(frac) : frac[i] # 0
                       \/ (Len(int) > 0 /\ int[Len(int)] % 2 = 1)
    IN  IF up THEN Incr(int) ELSE int

\* the mantissa m / 2^k with MantFloor <= m < MantLimit where that can be
Renorm(m, k, bitSize) ==
    LET b == ToBinary([d |-> m, s |-> 0], k, MaxStep, bitSize)
    IN  IF m = <<>> THEN [m |-> m, k |-> k] ELSE [m |-> IntDigits(b.y), k |-> b.k]

\* the float of the size nearest to x # 0: its mantissa m and shift k (the
\* float is m / 2^k), m empty when x rounds to zero
Nearest(x, bitSize) ==
    LET b == ToBinary(x, 0, MaxStep, bitSize) IN Renorm(RoundHalfEven(b.y), b.k, bitSize)

\* strconv's decimal of x: digits d without zeros at either end, and the
\* place dp of the point (0.d * 10^dp)
GoDecimal(x) ==
    LET t == Trimmed(x) IN
    [d |-> SubSeq(t.d, 1, Len(t.d) - TrailingZeros(t.d)), dp |-> Len(t.d) - t.s]

\* decimal.RoundDown, RoundUp and Round to nd digits
RoundDown(a, nd) ==
    IF nd < 0 \/ nd >= Len(a.d) THEN a
    ELSE LET d == SubSeq(a.d, 1, nd - TrailingZeros(SubSeq(a.d, 1, nd)))
         IN  [d |-> d, dp |-> IF d = <<>> THEN 0 ELSE a.dp]

RoundUp(a, nd) ==
    IF nd < 0 \/ nd >= Len(a.d) THEN a
    ELSE IF \E i \in 1..nd : a.d[i] < 9
    THEN LET j == CHOOSE j \in 1..nd : a.d[j] < 9 /\ \A i \in (j + 1)..nd : a.d[i] = 9
         IN  [d |-> SubSeq(a.d, 1, j - 1) \o <<a.d[j] + 1>>, dp |-> a.dp]
    ELSE [d |-> <<1>>, dp |-> a.dp + 1]

ShouldRoundUp(a, nd) ==
    IF nd < 0 \/ nd >= Len(a.d) THEN FALSE
    ELSE IF a.d[nd + 1] = 5 /\ nd + 1 = Len(a.d) THEN nd > 0 /\ a.d[nd] % 2 # 0
    ELSE a.d[nd + 1] >= 5

Round(a, nd) == IF ShouldRoundUp(a, nd) THEN RoundUp(a, nd) ELSE RoundDown(a, nd)

RECURSIVE ShortestWalk(_, _, _, _, _, _)
\* the loop of strconv's roundShortest from digit ui of upper on: d cut where
\* it first tells itself from lower or from upper
ShortestWalk(d, lower, upper, inclusive, ui, upperdelta) ==
    LET mi == ui - upper.dp + d.dp
        li == ui - upper.dp + lower.dp
        l == IF li >= 0 /\ li < Len(lower.d) THEN lower.d[li + 1] ELSE 0
        m == IF mi >= 0 /\ mi < Len(d.d) THEN d.d[mi + 1] ELSE 0
        u == IF ui < Len(upper.d) THEN upper.d[ui + 1] ELSE 0
        okdown == l # m \/ (inclusive /\ li + 1 = Len(lower.d))
        delta == CASE upperdelta = 0 /\ m + 1 < u -> 2
                   [] upperdelta = 0 /\ m + 1 >= u /\ m # u -> 1
                   [] upperdelta = 1 /\ (m # 9 \/ u # 0) -> 2
                   [] OTHER -> upperdelta
        okup == delta > 0 /\ (inclusive \/ delta > 1 \/ ui + 1 < Len(upper.d))
    IN  IF mi >= Len(d.d) THEN d
        ELSE IF okdown /\ okup THEN Round(d, mi + 1)
        ELSE IF okdown THEN RoundDown(d, mi + 1)
        ELSE IF okup THEN RoundUp(d, mi + 1)
        ELSE ShortestWalk(d, lower, upper, inclusive, ui + 1, delta)

\* strconv's roundShortest for the float64 m / 2^k: the shortest decimal
\* between the halfway points to the floats next to it
RoundShortest(m, k) ==
    LET x == [d |-> m, s |-> 0]
        upper == Shifted([d |-> Incr(Twice(x).d), s |-> 0], k + 1)
        lower == IF Compare(m, MantFloor(64)) > 0 \/ k = MaxShift(64)
                 THEN Shifted([d |-> Decr(Twice(x).d), s |-> 0], k + 1)
                 ELSE Shifted([d |-> Decr(Twice(Twice(x)).d), s |-> 0], k + 2)
    IN  ShortestWalk(GoDecimal(Shifted(x, k)), GoDecimal(lower), GoDecimal(upper),
                     m[Len(m)] % 2 = 0, 0, 0)

\* the float64 of the decimal a (digits a.d, point a.dp)
NumOf(neg, a) == [f |-> Num(neg, a.d, a.dp), err |-> ""]

\* the float64 m / 2^k under its shortest decimal
Shortest(neg, w) == NumOf(neg, RoundShortest(w.m, w.k))

\* the float n of the size (mantissa n.m, shift n.k) as a float64; a float
\* beyond the largest of the size is the range error of ParseFloat
FloatNamed(neg, n, bitSize) ==
    IF n.m = <<>> THEN [f |-> Num(neg, <<>>, 0), err |-> ""]
    ELSE IF Compare(n.m, MantFloor(bitSize)) >= 0 /\ n.k < OverflowShift(bitSize)
    THEN [f |-> Infinity(neg), err |-> "range"]
    ELSE Shortest(neg, Renorm(n.m, n.k, 64))

\* the float64 of a float of the size: the decimal x # 0 rounded to the size,
\* then named as a float64
FloatOf(neg, x, bitSize) == FloatNamed(neg, Nearest(x, bitSize), bitSize)

\* strconv's %f of the shortest decimal (fmtF with prec = nd - dp)
FormatDigits(d, dp) ==
    LET chars == [i \in 1..Len(d) |-> DigitChars[d[i] + 1]]
        whole == IF dp <= 0 THEN <<"0">>
                 ELSE IF dp >= Len(d) THEN chars \o [i \in 1..(dp - Len(d)) |-> "0"]
                 ELSE SubSeq(chars, 1, dp)
        frac == IF dp >= Len(d) THEN <<>>
                ELSE IF dp <= 0 THEN [i \in 1..(0 - dp) |-> "0"] \o chars
                ELSE SubSeq(chars, dp + 1, Len(d))
    IN  whole \o (IF Len(frac) = 0 THEN <<>> ELSE <<".">> \o frac)

\* strconv.FormatFloat(f, 'f', -1, 64): the shortest decimal, no exponent
FormatFloat(f) ==
    CASE f.k = "nan" -> <<"N", "a", "N">>
      [] f.k = "inf" -> <<(IF f.neg THEN "-" ELSE "+"), "I", "n", "f">>
      [] OTHER -> (IF f.neg THEN <<"-">> ELSE <<>>) \o FormatDigits(f.digits, f.point)

\* strconv's commonPrefixLenIgnoreCase(s, prefix), prefix in lower case
CommonPrefixLen(s, prefix) ==
    LET n == IF Len(s) < Len(prefix) THEN Len(s) ELSE Len(prefix)
        same == {i \in 0..n : \A j \in 1..i : LowerChar(s[j]) = prefix[j]}
    IN  CHOOSE i \in same : \A j \in same : j <= i

\* strconv's special: the infinities and NaN, and the characters they take
Special(s) ==
    LET signed == Len(s) > 0 /\ s[1] \in {"+", "-"}
        body == IF signed THEN Tail(s) ELSE s
        nsign == IF signed THEN 1 ELSE 0
        inf == CommonPrefixLen(body, <<"i", "n", "f", "i", "n", "i", "t", "y">>)
        n == IF 3 < inf /\ inf < 8 THEN 3 ELSE inf
    IN  IF Len(s) = 0 THEN [ok |-> FALSE, n |-> 0, f |-> NaN]
        ELSE IF signed \/ s[1] \in {"i", "I"}
        THEN IF n = 3 \/ n = 8
             THEN [ok |-> TRUE, n |-> nsign + n, f |-> Infinity(signed /\ s[1] = "-")]
             ELSE [ok |-> FALSE, n |-> 0, f |-> NaN]
        ELSE IF s[1] \in {"n", "N"} /\ CommonPrefixLen(s, <<"n", "a", "n">>) = 3
        THEN [ok |-> TRUE, n |-> 3, f |-> NaN]
        ELSE [ok |-> FALSE, n |-> 0, f |-> NaN]

\* the value of a digit character in the base, 99 when it is none
DigitValue(c, base) ==
    LET n == IF IsDigit(c) THEN PlaceIn(DigitChars, c) - 1
             ELSE IF PlaceIn(LowerChars, LowerChar(c)) # 0
             THEN PlaceIn(LowerChars, LowerChar(c)) + 9
             ELSE 99
    IN  IF n < base THEN n ELSE 99

\* the digit loop of strconv's readFloat from character i on: it stops (at
\* place i of the result) before the first character that is no digit of the
\* base, no underscore and no first point; digits are the digits read after
\* the leading zeros, dp the place of the point among them
ReadMantissa(s, i, base) ==
    LET stops == {j \in i..Len(s) :
                    \/ /\ s[j] \notin {"_", "."}
                       /\ DigitValue(s[j], base) = 99
                    \/ /\ s[j] = "."
                       /\ \E h \in i..(j - 1) : s[h] = "."}
        end == IF stops = {} THEN Len(s) + 1
               ELSE CHOOSE j \in stops : \A h \in stops : j <= h
        read == SubSeq(s, i, end - 1)
        dots == {j \in 1..Len(read) : read[j] = "."}
        dot == IF dots = {} THEN Len(read) + 1 ELSE CHOOSE j \in dots : TRUE
        IsDigitOfBase(c) == c \notin {"_", "."}
        chars == SelectSeq(read, IsDigitOfBase)
        all == [j \in 1..Len(chars) |-> DigitValue(chars[j], base)]
        before == Len(SelectSeq(SubSeq(read, 1, dot - 1), IsDigitOfBase))
    IN  [i |-> end,
         digits |-> SubSeq(all, LeadingZeros(all) + 1, Len(all)),
         dp |-> before - LeadingZeros(all),
         sawdot |-> dots # {},
         sawdigits |-> Len(all) > 0,
         underscores |-> \E j \in 1..Len(read) : read[j] = "_"]

RECURSIVE ReadExponent(_, _, _)
\* the digits of the exponent from character i on: the exponent, held below
\* 100000 as readFloat holds it, the place after it, and whether an
\* underscore was seen
ReadExponent(s, i, r) ==
    IF i <= Len(s) /\ s[i] = "_" THEN ReadExponent(s, i + 1, [r EXCEPT !.underscores = TRUE])
    ELSE IF i <= Len(s) /\ IsDigit(s[i])
    THEN ReadExponent(s, i + 1,
                      [r EXCEPT !.e = IF r.e < 10000
                                      THEN r.e * 10 + PlaceIn(DigitChars, s[i]) - 1
                                      ELSE r.e])
    ELSE [r EXCEPT !.i = i]

\* readFloat after the mantissa m and the exponent x (read from place e0 on
\* when hasExp): the sign, the base, the digits of the mantissa, the place of
\* the point after the exponent was added (in bits for base 16), the number n
\* of characters read, and whether they spell a number
ReadChecked(s, hex, m, hasExp, e0, x) ==
    IF \/ Len(s) = 0 \/ ~m.sawdigits
       \/ hasExp /\ (e0 > Len(s) \/ ~IsDigit(s[e0]))
       \/ hex /\ ~hasExp
       \/ /\ m.underscores \/ (hasExp /\ x.underscores)
          /\ ~UnderscoreOK(SubSeq(s, 1, (IF hasExp THEN x.i ELSE m.i) - 1))
    THEN [ok |-> FALSE, neg |-> FALSE, hex |-> hex, digits |-> <<>>, dp |-> 0, n |-> 0]
    ELSE [ok |-> TRUE, neg |-> s[1] = "-", hex |-> hex, digits |-> m.digits,
          dp |-> (IF hex THEN 4 ELSE 1) * (IF m.sawdot THEN m.dp ELSE Len(m.digits))
                 + (IF ~hasExp THEN 0 ELSE IF s[e0 - 1] = "-" THEN 0 - x.e ELSE x.e),
          n |-> (IF hasExp THEN x.i ELSE m.i) - 1]

\* readFloat after the mantissa m: is there an exponent (e or p), and where
\* do its digits start
ReadTail(s, hex, m, hasExp, e0) ==
    ReadChecked(s, hex, m, hasExp, e0,
                ReadExponent(s, e0, [e |-> 0, i |-> e0, underscores |-> FALSE]))

ReadDigits(s, hex, m) ==
    ReadTail(s, hex, m,
             m.i <= Len(s) /\ LowerChar(s[m.i]) = (IF hex THEN "p" ELSE "e"),
             IF m.i + 1 <= Len(s) /\ s[m.i + 1] \in {"+", "-"} THEN m.i + 2 ELSE m.i + 1)

\* readFloat from place i0, after the sign: the base by the prefix 0x
ReadBase(s, i0, hex) ==
    ReadDigits(s, hex, ReadMantissa(s, IF hex THEN i0 + 2 ELSE i0, IF hex THEN 16 ELSE 10))

ReadSigned(s, i0) ==
    ReadBase(s, i0, i0 + 2 <= Len(s) /\ s[i0] = "0" /\ LowerChar(s[i0 + 1]) = "x")

\* strconv's readFloat
ReadFloat(s) == ReadSigned(s, IF Len(s) > 0 /\ s[1] \in {"+", "-"} THEN 2 ELSE 1)

RECURSIVE AddSmall(_, _)
\* the integer of digits d plus n
AddSmall(d, n) == IF n = 0 THEN d ELSE AddSmall(Incr(d), n - 1)

RECURSIVE HexInt(_, _)
\* the integer the hexadecimal digits h spell after the digits of acc
HexInt(h, acc) ==
    IF Len(h) = 0 THEN acc
    ELSE HexInt(Tail(h), AddSmall(Shifted([d |-> acc, s |-> 0], -4).d, Head(h)))

RECURSIVE SmallInt(_, _)
\* the integer a few decimal digits spell after those of acc
SmallInt(d, acc) == IF Len(d) = 0 THEN acc ELSE SmallInt(Tail(d), acc * 10 + Head(d))

\* a decimal that is a float of the size as it stands, so that rounding it
\* and naming the float gives it back: up to 15 digits for a float64, and for
\* a float32 a multiple of 1/2^7 below 10^7
IsExact(digits, dp, bitSize) ==
    IF bitSize = 64 THEN Len(digits) <= 15 /\ dp >= -290 /\ dp <= 290
    ELSE /\ Len(digits) <= 7 /\ dp <= 7 /\ Len(digits) - dp <= 7
         /\ (dp < Len(digits) => SmallInt(digits, 0) % Pow(5, Len(digits) - dp) = 0)

\* the number readFloat read, as a float of the size
ReadNumber(r, bitSize) ==
    LET digits == SubSeq(r.digits, 1, Len(r.digits) - TrailingZeros(r.digits))
        dp10 == r.dp
        e2 == r.dp - 4 * Len(r.digits)
    IN  IF digits = <<>> THEN [f |-> Num(r.neg, <<>>, 0), err |-> ""]
        ELSE IF r.hex
        THEN IF r.dp > 1030 THEN [f |-> Infinity(r.neg), err |-> "range"]
             ELSE IF r.dp < -1080 THEN [f |-> Num(r.neg, <<>>, 0), err |-> ""]
             ELSE FloatOf(r.neg, Shifted([d |-> HexInt(r.digits, <<>>), s |-> 0], 0 - e2),
                          bitSize)
        ELSE IF dp10 > 310 THEN [f |-> Infinity(r.neg), err |-> "range"]
        ELSE IF dp10 < -330 THEN [f |-> Num(r.neg, <<>>, 0), err |-> ""]
        ELSE IF IsExact(digits, dp10, bitSize)
        THEN [f |-> Num(r.neg, digits, dp10), err |-> ""]
        ELSE FloatOf(r.neg,
                     IF dp10 >= Len(digits)
                     THEN [d |-> digits \o Zeros(dp10 - Len(digits)), s |-> 0]
                     ELSE [d |-> digits, s |-> Len(digits) - dp10],
                     bitSize)

\* ParseFloat after special (sp) and readFloat (r) looked at s
Parsed(s, bitSize, sp, r) ==
    IF sp.ok
    THEN IF sp.n = Len(s) THEN [f |-> sp.f, err |-> ""]
         ELSE [f |-> Num(FALSE, <<>>, 0), err |-> "syntax"]
    ELSE IF ~r.ok \/ r.n # Len(s)
    THEN [f |-> Num(FALSE, <<>>, 0), err |-> "syntax"]
    ELSE ReadNumber(r, bitSize)

\* strconv.ParseFloat(s, bitSize): the float64 of the float of the size that
\* is nearest to the number s spells
ParseFloat(s, bitSize) == Parsed(s, bitSize, Special(s), ReadFloat(s))

(***************************************************************************)
(* Go types and values, as reflect shows them to the package               *)
(*                                                                         *)
(* A type is a record: its kind k, its bit size, its name ("" for an       *)
(* unnamed type), its element and key types (in a sequence of length 0 or  *)
(* 1), its fields, and the hook methods it declares, each "none", "value"  *)
(* (value receiver) or "ptr" (pointer receiver).                           *)
(* A value is a payload read with its type: a boolean, an integer, a float *)
(* (see Floats), a string,   <<>> or <<pointee>> for a pointer, a record   *)
(* [nil, elems] for a slice, [nil, entries] for a map, the sequence of the *)
(* field values for a struct.                                              *)
(***************************************************************************)

NoHooks ==
    [getter |-> "none", setter |-> "none", textm |-> "none", textu |-> "none",
     fails |-> FALSE]

Ty(k, bits, name) ==
    [k |-> k, bits |-> bits, name |-> name, elem |-> <<>>, key |-> <<>>,
     fields |-> <<>>, hooks |-> NoHooks]

TBool == Ty("bool", 0, "bool")
TString == Ty("string", 0, "string")
TInt(bits) == Ty("int", bits, "int")
TUint == Ty("uint", 0, "uint")
TFloat(bits) == Ty("float", bits, "float")
TChan == Ty("chan", 0, "")
PtrTo(t) == [Ty("ptr", 0, "") EXCEPT !.elem = <<t>>]
SliceOf(t) == [Ty("slice", 0, "") EXCEPT !.elem = <<t>>]
MapOf(kt, vt) == [Ty("map", 0, "") EXCEPT !.key = <<kt>>, !.elem = <<vt>>]
StructOf(fields) == [Ty("struct", 0, "") EXCEPT !.fields = fields]
\* type name T, with hook methods
Named(t, name, hooks) == [t EXCEPT !.name = name, !.hooks = hooks]

Elem(t) == t.elem[1]

\* a struct field: its Go name, the value of its csv tag, whether it is embedded
Field(name, tag, t) == [name |-> name, tag |-> tag, anonymous |-> FALSE, type |-> t]
Embedded(name, t) == [name |-> name, tag |-> <<>>, anonymous |-> TRUE, type |-> t]

\* reflect.StructField.PkgPath == "": the name starts with an upper-case letter
Exported(f) == PlaceIn(UpperChars, f.name[1]) # 0

NilSlice == [nil |-> TRUE, elems |-> <<>>]
SliceVal(elems) == [nil |-> FALSE, elems |-> elems]
NilMap == [nil |-> TRUE, entries |-> <<>>]
MapVal(entries) == [nil |-> FALSE, entries |-> entries]

RECURSIVE Zero(_)
\* reflect.Zero(t)
Zero(t) ==
    CASE t.k = "bool" -> FALSE
      [] t.k \in {"int", "uint"} -> 0
      [] t.k = "float" -> Num(FALSE, <<>>, 0)
      [] t.k = "string" -> <<>>
      [] t.k = "ptr" -> <<>>
      [] t.k = "slice" -> NilSlice
      [] t.k = "map" -> NilMap
      [] t.k = "struct" -> [i \in 1..Len(t.fields) |-> Zero(t.fields[i].type)]
      [] OTHER -> NilSlice

\* Whether v.Interface().(Hook) succeeds after the addressing step shared by
\* indirectGetter, indirectTextMarshaler, indirectSetter and
\* indirectTextUnmarshaler; hook is the name of the method in t.hooks.
\* A named, addressable non-pointer is replaced by its address, whose method
\* set holds the methods of both receivers; a pointer has the methods of its
\* element; any other value has the value-receiver methods only.
IndirectFinds(t, hook, addr) ==
    IF t.k # "ptr" /\ t.name # "" /\ addr
    THEN t.hooks[hook] # "none"
    ELSE IF t.k = "ptr"
    THEN Elem(t).k # "ptr" /\ Elem(t).hooks[hook] # "none"
    ELSE t.hooks[hook] = "value"

\* the hook found is a value-receiver method reached through a nil pointer:
\* calling it panics
NilReceiver(t, v, hook) == t.k = "ptr" /\ v = <<>> /\ Elem(t).hooks[hook] = "value"

(***************************************************************************)
(* Times (package time, whose Time the tests encode and decode)            *)
(*                                                                         *)
(* A time.Time is <<day, sec, nsec, off>>: the days from 0001-01-01 to the *)
(* day of the instant in UTC, the second of that day, the nanosecond of    *)
(* that second, and the offset of its zone from UTC in minutes. time.Time  *)
(* keeps the seconds since year 1 in one int64; the days and the seconds   *)
(* are kept apart here so that no number needs more than 32 bits. The zero *)
(* Time is <<0, 0, 0, 0>>: 0001-01-01T00:00:00Z.                           *)
(***************************************************************************)

\* type Time struct { wall uint64; ext int64; loc *Location }, with its
\* MarshalText on the value and its UnmarshalText on the pointer
Stamp ==
    Named(StructOf(<<Field(<<"d", "a", "y">>, <<>>, TInt(64)),
                     Field(<<"s", "e", "c">>, <<>>, TInt(64)),
                     Field(<<"n", "s", "e", "c">>, <<>>, TInt(64)),
                     Field(<<"o", "f", "f">>, <<>>, TInt(64))>>),
          "Time", [NoHooks EXCEPT !.textm = "value", !.textu = "ptr"])

ZeroTime == <<0, 0, 0, 0>>

\* isLeap and daysIn of package time
isLeap(year) == year % 4 = 0 /\ (year % 100 # 0 \/ year % 400 = 0)
daysIn(m, year) ==
    IF m = 2 THEN (IF isLeap(year) THEN 29 ELSE 28)
    ELSE IF m \in {4, 6, 9, 11} THEN 30 ELSE 31

\* the days of the year before month m (daysBefore of package time, plus the
\* leap day)
daysBefore(m, year) ==
    <<0, 31, 59, 90, 120, 151, 181, 212, 243, 273, 304, 334>>[m]
        + (IF m > 2 /\ isLeap(year) THEN 1 ELSE 0)

\* the days from 0001-01-01 to the first day of the year
DaysBeforeYear(year) ==
    365 * (year - 1) + ((year - 1) \div 4) - ((year - 1) \div 100) + ((year - 1) \div 400)

\* the second of its day and the day that an instant so many seconds after the
\* start of day falls on
SecondOfDay(sec) == sec % 86400
DayShift(sec) == sec \div 86400

\* time.Date(year, month, day, hour, min, sec, nsec, loc) for a date and a
\* clock in their ranges and a zone off minutes east of UTC
Date(year, month, day, hour, min, sec, nsec, off) ==
    <<DaysBeforeYear(year) + daysBefore(month, year) + day - 1
          + DayShift(hour * 3600 + min * 60 + sec - off * 60),
      SecondOfDay(hour * 3600 + min * 60 + sec - off * 60), nsec, off>>

\* Time.date of package time: the year, the day of the year, the month and
\* the day of the month of day n, found by the cycles of 400, 100, 4 and 1
\* years; the last year of a cycle is the long one
Cap3(n) == IF n > 3 THEN 3 ELSE n
Centuries(n) == Cap3((n % 146097) \div 36524)
InCentury(n) == (n % 146097) - 36524 * Centuries(n)
InFourYears(n) == InCentury(n) % 1461
YearsOfFour(n) == Cap3(InFourYears(n) \div 365)
YearDay(n) == InFourYears(n) - 365 * YearsOfFour(n)
YearOf(n) ==
    400 * (n \div 146097) + 100 * Centuries(n) + 4 * (InCentury(n) \div 1461)
        + YearsOfFour(n) + 1
MonthOf(n) ==
    CHOOSE m \in 1..12 :
        /\ daysBefore(m, YearOf(n)) <= YearDay(n)
        /\ YearDay(n) < daysBefore(m, YearOf(n)) + daysIn(m, YearOf(n))
MonthDayOf(n) == YearDay(n) - daysBefore(MonthOf(n), YearOf(n)) + 1

\* the day and the second of the day that a Time shows in its zone
LocalDay(t) == t[1] + DayShift(t[2] + t[4] * 60)
LocalSecond(t) == SecondOfDay(t[2] + t[4] * 60)

\* appendInt(b, x, width) for x >= 0: the digits of x after zeros up to width
AppendInt(x, width) == [i \in 1..(width - Len(FormatUint(x))) |-> "0"] \o FormatUint(x)

\* appendNano for the layout .999999999: nothing for no nanosecond, else the
\* point and the nine digits without the zeros at their end
AppendNano(nsec) ==
    IF nsec = 0 THEN <<>>
    ELSE <<".">> \o SubSeq(AppendInt(nsec, 9), 1,
                           CHOOSE k \in 1..9 :
                               /\ AppendInt(nsec, 9)[k] # "0"
                               /\ \A j \in (k + 1)..9 : AppendInt(nsec, 9)[j] = "0")

\* the zone of appendFormatRFC3339: Z for UTC, else the sign, the hours and
\* the minutes of the offset
AppendZone(off) ==
    IF off = 0 THEN <<"Z">>
    ELSE (IF off < 0 THEN <<"-">> ELSE <<"+">>)
         \o AppendInt((IF off < 0 THEN 0 - off ELSE off) \div 60, 2) \o <<":">>
         \o AppendInt((IF off < 0 THEN 0 - off ELSE off) % 60, 2)

\* Time.appendFormatRFC3339(b, true), the layout RFC3339Nano, for a year in
\* 0..9999
AppendFormatRFC3339(t) ==
    AppendInt(YearOf(LocalDay(t)), 4) \o <<"-">>
    \o AppendInt(MonthOf(LocalDay(t)), 2) \o <<"-">>
    \o AppendInt(MonthDayOf(LocalDay(t)), 2) \o <<"T">>
    \o AppendInt(LocalSecond(t) \div 3600, 2) \o <<":">>
    \o AppendInt((LocalSecond(t) % 3600) \div 60, 2) \o <<":">>
    \o AppendInt(LocalSecond(t) % 60, 2)
    \o AppendNano(t[3]) \o AppendZone(t[4])

\* Time.MarshalText (appendStrictRFC3339): the RFC 3339 text of the time, or
\* an error for a year outside 0..9999 or a zone 24 hours or more from UTC
TimeMarshalText(t) ==
    IF \/ YearOf(LocalDay(t)) < 0 \/ YearOf(LocalDay(t)) > 9999
       \/ t[4] >= 24 * 60 \/ t[4] <= 0 - 24 * 60
    THEN [err |-> TRUE, text |-> <<>>]
    ELSE [err |-> FALSE, text |-> AppendFormatRFC3339(t)]

\* the character at place i of s, or none
CharAt(s, i) == IF i >= 1 /\ i <= Len(s) THEN s[i] ELSE ""

\* getnum(s, true) at place i: the number two digits spell, or -1 (errBad)
TwoDigits(s, i) ==
    IF IsDigit(CharAt(s, i)) /\ IsDigit(CharAt(s, i + 1))
    THEN 10 * (PlaceIn(DigitChars, s[i]) - 1) + PlaceIn(DigitChars, s[i + 1]) - 1
    ELSE -1

\* the year of the layout 2006: four digits, or -1
FourDigits(s) ==
    IF TwoDigits(s, 1) >= 0 /\ TwoDigits(s, 3) >= 0
    THEN 100 * TwoDigits(s, 1) + TwoDigits(s, 3)
    ELSE -1

\* getnum(s, false) for the hour of the layout 15, which starts at place 12:
\* one digit or two, or -1; and the place after it
HourOf(s) ==
    IF ~IsDigit(CharAt(s, 12)) THEN -1
    ELSE IF IsDigit(CharAt(s, 13)) THEN TwoDigits(s, 12)
    ELSE PlaceIn(DigitChars, s[12]) - 1
HourEnd(s) == IF IsDigit(CharAt(s, 13)) THEN 14 ELSE 13

\* a fraction of the second starts at place q: a point or a comma and a digit
HasFraction(s, q) == CharAt(s, q) \in {".", ","} /\ IsDigit(CharAt(s, q + 1))

\* the place after the digits of the fraction that starts at place q
FractionEnd(s, q) ==
    CHOOSE e \in (q + 2)..(Len(s) + 1) :
        /\ ~IsDigit(CharAt(s, e))
        /\ \A j \in (q + 2)..(e - 1) : IsDigit(s[j])

\* parseNanoseconds: the nanoseconds of the digits at places q + 1 to e - 1,
\* of which the first nine count
ParseNanoseconds(s, q, e) ==
    LET n == IF e - q - 1 > 9 THEN 9 ELSE e - q - 1 IN
    SmallInt([i \in 1..n |-> PlaceIn(DigitChars, s[q + i]) - 1], 0) * Pow(10, 9 - n)

\* the place after the seconds, and after their fraction when there is one
ZoneStart(s) ==
    IF HasFraction(s, HourEnd(s) + 6) THEN FractionEnd(s, HourEnd(s) + 6)
    ELSE HourEnd(s) + 6

\* the zone of the layout Z07:00 at place z is well formed and ends the text:
\* Z, or a sign, two digits up to 24, a colon and two digits up to 60
ZoneOk(s, z) ==
    IF CharAt(s, z) = "Z" THEN Len(s) = z
    ELSE /\ Len(s) = z + 5
         /\ s[z] \in {"+", "-"}
         /\ s[z + 3] = ":"
         /\ TwoDigits(s, z + 1) >= 0 /\ TwoDigits(s, z + 1) <= 24
         /\ TwoDigits(s, z + 4) >= 0 /\ TwoDigits(s, z + 4) <= 60

\* and its offset in minutes
ZoneOffset(s, z) ==
    IF CharAt(s, z) = "Z" THEN 0
    ELSE (IF s[z] = "-" THEN -1 ELSE 1) * (60 * TwoDigits(s, z + 1) + TwoDigits(s, z + 4))

\* Parse(RFC3339, s) accepts s: the layout 2006-01-02T15:04:05Z07:00 with its
\* numbers in their ranges, the day one of its month, and nothing after it
ParseOk(s) ==
    /\ FourDigits(s) >= 0
    /\ CharAt(s, 5) = "-"
    /\ TwoDigits(s, 6) >= 1 /\ TwoDigits(s, 6) <= 12
    /\ CharAt(s, 8) = "-"
    /\ TwoDigits(s, 9) >= 1 /\ TwoDigits(s, 9) <= daysIn(TwoDigits(s, 6), FourDigits(s))
    /\ CharAt(s, 11) = "T"
    /\ HourOf(s) >= 0 /\ HourOf(s) < 24
    /\ CharAt(s, HourEnd(s)) = ":"
    /\ TwoDigits(s, HourEnd(s) + 1) >= 0 /\ TwoDigits(s, HourEnd(s) + 1) < 60
    /\ CharAt(s, HourEnd(s) + 3) = ":"
    /\ TwoDigits(s, HourEnd(s) + 4) >= 0 /\ TwoDigits(s, HourEnd(s) + 4) < 60
    /\ ZoneOk(s, ZoneStart(s))

\* Parse(RFC3339, s) for a text it accepts: the instant the text spells, in
\* the zone of its offset
ParseRFC3339(s) ==
    Date(FourDigits(s), TwoDigits(s, 6), TwoDigits(s, 9), HourOf(s),
         TwoDigits(s, HourEnd(s) + 1), TwoDigits(s, HourEnd(s) + 4),
         IF HasFraction(s, HourEnd(s) + 6)
         THEN ParseNanoseconds(s, HourEnd(s) + 6, ZoneStart(s)) ELSE 0,
         ZoneOffset(s, ZoneStart(s)))

\* Time.UnmarshalText (parseStrictRFC3339, whose strict checks are switched
\* off): *t, err = the Time and the error of Parse(RFC3339, s), so that a
\* text Parse rejects leaves the zero Time
TimeUnmarshalText(s) ==
    IF ParseOk(s) THEN [err |-> FALSE, t |-> ParseRFC3339(s)]
    ELSE [err |-> TRUE, t |-> ZeroTime]

(***************************************************************************)
(* The Encoder                                                             *)
(***************************************************************************)

\* DefaultEmptyValue and DefaultNilValue, which NewEncoder and NewDecoder read
DefaultEmptyValue == <<>>
DefaultNilValue == <<"N", "U", "L", "L">>

\* what a call of marshal, readStringTo, readCellValuesTo or readStructTo gives
\* back: the cells or the value, the error ("" for nil), the branch that
\* returned (via), the branches taken for the fields of a struct (sub), and
\* whether the call panicked instead of returning
Returned(out, via, sub) ==
    [out |-> out, err |-> "", via |-> via, sub |-> sub, panic |-> FALSE]
Failed(out, err, via) ==
    [out |-> out, err |-> err, via |-> via, sub |-> <<>>, panic |-> FALSE]
Panicked(out, via) ==
    [out |-> out, err |-> "", via |-> via, sub |-> <<>>, panic |-> TRUE]

\* the GetCSV of the types of the model returns what that of the test type
\* csvgetter does (encode.go:239-241): the one cell getcsv
GetCSVOutput == << <<"g", "e", "t", "c", "s", "v">> >>

\* the time.Time of a value whose type has the text hooks: the value itself,
\* or the embedded Time whose methods the type promotes
TimeOf(t, v) == IF t = Stamp THEN v ELSE v[1]

\* that value with its time.Time set to tm
WithTime(t, v, tm) == IF t = Stamp THEN tm ELSE [v EXCEPT ![1] = tm]

\* marshal, lines 64-66: the Getter of the value decides the cells
MarshalGetter(t, v) ==
    IF NilReceiver(t, v, "getter") THEN Panicked(<<>>, "GetCSV")
    ELSE IF (IF t.k = "ptr" THEN Elem(t) ELSE t).hooks.fails
    THEN Failed(<<>>, "hook", "GetCSV")
    ELSE Returned(GetCSVOutput, "GetCSV", <<>>)

\* marshal, lines 68-74: the TextMarshaler of the value gives one cell
\* (time.Time.MarshalText), or its error
TextMarshalled(r) ==
    IF r.err THEN Failed(<<>>, "hook", "MarshalText")
    ELSE Returned(<<r.text>>, "MarshalText", <<>>)

\* the TextMarshaler found for a value is called; through a nil pointer a
\* method with a value receiver panics
MarshalText(t, v) ==
    IF NilReceiver(t, v, "textm") THEN Panicked(<<>>, "MarshalText")
    ELSE IF t.k = "ptr" THEN TextMarshalled(TimeMarshalText(TimeOf(Elem(t), v[1])))
    ELSE TextMarshalled(TimeMarshalText(TimeOf(t, v)))

\* a marshal that looks for the TextMarshaler before the Getter
EncodeHookTextFirst(t, addr) ==
    IF IndirectFinds(t, "textm", addr) THEN "MarshalText"
    ELSE IF IndirectFinds(t, "getter", addr) THEN "GetCSV"
    ELSE "none"

\* the hook marshal uses for a value, in the order it looks for them
EncodeHook(t, addr) ==
    IF IndirectFinds(t, "getter", addr) THEN "GetCSV"
    ELSE IF IndirectFinds(t, "textm", addr) THEN "MarshalText"
    ELSE "none"

\* marshal, lines 77-90: the cells of a nil pointer
MarshalNil(enc, t) ==
    IF Elem(t).k = "struct"
    THEN Returned(
             [i \in 1..Cardinality({j \in 1..Len(Elem(t).fields) :
                                       Exported(Elem(t).fields[j])})
                |-> enc.NilValue],
             "nil", <<>>)
    ELSE Returned(<<enc.NilValue>>, "nil", <<>>)

\* marshal, line 176: csv:",omitEmpty"
TagOmitEmpty(tag) ==
    LET key == Split(tag, ",") IN Len(key) > 1 /\ key[2] = <<"o", "m", "i", "t", "E", "m", "p", "t", "y">>

\* marshal, line 179 and readStructTo, line 216: the field is passed over
SkipField(f) ==
    Split(f.tag, ",")[1] = <<"-">> \/ (~Exported(f) /\ ~f.anonymous)

\* a marshal that hands the omitEmpty of the field down to the elements
ElementOmitEmptyHandedDown == TRUE

\* marshal, lines 121, 139 and 153: the omitEmpty handed to the elements of a
\* slice and to the keys and values of a map
ElementOmitEmpty == FALSE

\* the order in which reflect's MapKeys hands out the entries: unspecified
MapOrder(entries, ord) ==
    IF ord = "rev" THEN [i \in 1..Len(entries) |-> entries[Len(entries) + 1 - i]]
    ELSE entries

RECURSIVE HasMap(_)
\* a map occurs in a value of type t
HasMap(t) ==
    \/ t.k = "map"
    \/ \E i \in 1..Len(t.elem) : HasMap(t.elem[i])
    \/ \E i \in 1..Len(t.fields) : HasMap(t.fields[i].type)

\* the iteration orders a value of type t can show
MapOrders(t) == IF HasMap(t) THEN {"fwd", "rev"} ELSE {"fwd"}

RECURSIVE DeepEqualZero(_, _)
\* reflect.DeepEqual(v, reflect.Zero(t)) of marshal, lines 94-96: floats are
\* compared with ==, so that -0 equals 0 and NaN equals nothing
DeepEqualZero(t, v) ==
    CASE t.k = "float" -> IsFloatZero(v)
      [] t.k = "struct" -> \A i \in 1..Len(t.fields) : DeepEqualZero(t.fields[i].type, v[i])
      [] OTHER -> v = Zero(t)

RECURSIVE marshal(_, _, _, _, _, _)
RECURSIVE marshalValue(_, _, _, _, _, _)
RECURSIVE marshalSlice(_, _, _, _, _)
RECURSIVE marshalMap(_, _, _, _, _)
RECURSIVE marshalStruct(_, _, _, _, _, _)

\* Encoder.marshal: the cells of value v of type t. addr is v.CanAddr(), ord
\* the order of map iteration.
marshal(enc, t, v, omitEmpty, addr, ord) ==
    IF EncodeHook(t, addr) = "GetCSV" THEN MarshalGetter(t, v)
    ELSE IF EncodeHook(t, addr) = "MarshalText" THEN MarshalText(t, v)
    ELSE IF t.k = "ptr"
    THEN IF v = <<>> THEN MarshalNil(enc, t)
         ELSE marshalValue(enc, Elem(t), v[1], omitEmpty, TRUE, ord)
    ELSE marshalValue(enc, t, v, omitEmpty, addr, ord)

\* Encoder.marshal from line 94 on: the value is no nil pointer and has no hook
marshalValue(enc, t, v, omitEmpty, addr, ord) ==
    IF DeepEqualZero(t, v) /\ omitEmpty THEN Returned(<<enc.EmptyValue>>, "empty", <<>>)
    ELSE CASE t.k = "bool" -> Returned(<<FormatBool(v)>>, "bool", <<>>)
           [] t.k = "string" -> Returned(<<v>>, "string", <<>>)
           [] t.k = "int" -> Returned(<<FormatInt(v)>>, "int", <<>>)
           [] t.k = "float" -> Returned(<<FormatFloat(v)>>, "float", <<>>)
           [] t.k = "slice" ->
                LET r == marshalSlice(enc, t, v.elems, 1, ord) IN
                IF r.panic \/ r.err # "" THEN r
                ELSE Returned(<<Join(r.out, <<",">>)>>, "slice", <<>>)
           [] t.k = "map" ->
                LET r == marshalMap(enc, t, MapOrder(v.entries, ord), 1, ord) IN
                IF r.panic \/ r.err # "" THEN r
                ELSE Returned(<<Join(r.out, <<",">>)>>, "map", <<>>)
           [] t.k = "struct" -> marshalStruct(enc, t, v, 1, addr, ord)
           [] OTHER -> Failed(<<>>, "unsupported", "default")

\* the loop of the reflect.Slice case from element i on: one string an element
marshalSlice(enc, t, elems, i, ord) ==
    IF i > Len(elems) THEN Returned(<<>>, "slice", <<>>)
    ELSE LET e == marshal(enc, Elem(t), elems[i], ElementOmitEmpty, TRUE, ord) IN
         IF e.panic \/ e.err # "" THEN e
         ELSE LET rest == marshalSlice(enc, t, elems, i + 1, ord) IN
              IF rest.panic \/ rest.err # "" THEN rest
              ELSE Returned(<<Join(e.out, <<",">>)>> \o rest.out, "slice", <<>>)

\* the loop of the reflect.Map case from entry i on: key:value an entry
marshalMap(enc, t, entries, i, ord) ==
    IF i > Len(entries) THEN Returned(<<>>, "map", <<>>)
    ELSE LET k == marshal(enc, t.key[1], entries[i][1], ElementOmitEmpty, FALSE, ord) IN
         IF k.panic \/ k.err # "" THEN k
         ELSE LET e == marshal(enc, Elem(t), entries[i][2], ElementOmitEmpty, FALSE, ord) IN
              IF e.panic \/ e.err # "" THEN e
              ELSE LET rest == marshalMap(enc, t, entries, i + 1, ord) IN
                   IF rest.panic \/ rest.err # "" THEN rest
                   ELSE Returned(
                            <<Join(k.out, <<",">>) \o <<":">> \o Join(e.out, <<",">>)>>
                                \o rest.out,
                            "map", <<>>)

\* the loop of the reflect.Struct case from field i on. The value of an
\* unexported embedded field is read-only to reflect: Interface() on it
\* (line 42) panics.
marshalStruct(enc, t, v, i, addr, ord) ==
    IF i > Len(t.fields) THEN Returned(<<>>, "struct", <<>>)
    ELSE LET f == t.fields[i] IN
         IF SkipField(f) THEN marshalStruct(enc, t, v, i + 1, addr, ord)
         ELSE IF ~Exported(f) THEN Panicked(<<>>, "Interface")
         ELSE LET e == marshal(enc, f.type, v[i], TagOmitEmpty(f.tag), addr, ord) IN
              IF e.panic \/ e.err # "" THEN e
              ELSE LET rest == marshalStruct(enc, t, v, i + 1, addr, ord) IN
                   IF rest.panic \/ rest.err # "" THEN rest
                   ELSE Returned(e.out \o rest.out, "struct", <<e.via>> \o rest.sub)

(***************************************************************************)
(* Types and values of the callers (the types of the tests and variants)   *)
(***************************************************************************)

\* type csvgetter map[string]string, GetCSV on the value, SetCSV on the pointer
CsvGetter ==
    Named(MapOf(TString, TString), "csvgetter",
          [NoHooks EXCEPT !.getter = "value", !.setter = "ptr"])

\* a record type whose GetCSV and SetCSV are both declared on the pointer
PtrGetter ==
    Named(StructOf(<<Field(<<"A">>, <<>>, TString)>>), "ptrgetter",
          [NoHooks EXCEPT !.getter = "ptr", !.setter = "ptr"])

\* type allhooks struct { time.Time } with a GetCSV on the value and a SetCSV
\* on the pointer: a type with every hook, the cell hooks it declares and the
\* text hooks of the embedded Time
AllHooks ==
    Named(StructOf(<<Embedded(<<"T", "i", "m", "e">>, Stamp)>>), "allhooks",
          [getter |-> "value", setter |-> "ptr", textm |-> "value", textu |-> "ptr",
           fails |-> FALSE])

\* a string type with a SetCSV on the pointer and no GetCSV
SetOnly ==
    Named(TString, "setonly", [NoHooks EXCEPT !.setter = "ptr"])

\* a type whose hooks return an error
FailingGetter ==
    Named(TString, "failing",
          [NoHooks EXCEPT !.getter = "value", !.setter = "ptr", !.fails = TRUE])

Henry == <<"h", "e", "n", "r", "y">>
Vin == <<"v", "i", "n">>
Diesel == <<"d", "i", "e", "s", "e", "l">>
CustomEmpty == <<"V", "I", "N">>
CustomNil == <<"I", "M", "M", "O", "R", "T", "A", "L">>
OmitEmptyTag == <<",", "o", "m", "i", "t", "E", "m", "p", "t", "y">>

\* struct { A string; B string }
PairType == StructOf(<<Field(<<"A">>, <<>>, TString), Field(<<"B">>, <<>>, TString)>>)

\* struct { Names []string; Ages []int }  (decode.go:429-432)
ChildStruct ==
    StructOf(<<Field(<<"N", "a", "m", "e", "s">>, <<>>, SliceOf(TString)),
               Field(<<"A", "g", "e", "s">>, <<>>, SliceOf(TInt(0)))>>)

\* struct { A string; B string `csv:"-"` }
DashChild ==
    StructOf(<<Field(<<"A">>, <<>>, TString), Field(<<"B">>, <<"-">>, TString)>>)

\* struct { A string; b string }
PrivateChild ==
    StructOf(<<Field(<<"A">>, <<>>, TString), Field(<<"b">>, <<>>, TString)>>)

\* struct { A string; Inner struct { A string; B string } }
NestedChild ==
    StructOf(<<Field(<<"A">>, <<>>, TString),
               Field(<<"I", "n", "n", "e", "r">>, <<>>, PairType)>>)

\* type Pair struct { A string; B string };  struct { Pair; C string }
EmbeddingChild ==
    StructOf(<<Embedded(<<"P", "a", "i", "r">>, Named(PairType, "Pair", NoHooks)),
               Field(<<"C">>, <<>>, TString)>>)

\* struct { Time time.Time }  (decode.go:417-419, encode.go:341-343)
TimeType == StructOf(<<Field(<<"T", "i", "m", "e">>, <<>>, Stamp)>>)

\* time.Date(2000, 10, 9, 8, 7, 6, 5, time.UTC)  (decode.go:416), and times
\* in zones east and west of UTC
TwoThousand == Date(2000, 10, 9, 8, 7, 6, 5, 0)
EastOfUTC == Date(1999, 12, 31, 23, 30, 0, 500000000, 5 * 60 + 30)
WestOfUTC == Date(2024, 2, 29, 0, 0, 59, 0, 0 - 8 * 60)

\* struct { F t `csv:"<tag>"` }
OneField(tag, t) == StructOf(<<Field(<<"F">>, tag, t)>>)

\* an argument of Encode: a value with its type
Arg(t, v) == [t |-> t, v |-> v]

\* the record type of an argument of Encode, which is a record or a pointer
\* to one, and the record itself
RecordType(arg) == IF arg.t.k = "ptr" THEN Elem(arg.t) ELSE arg.t
RecordValue(arg) == IF arg.t.k = "ptr" THEN arg.v[1] ELSE arg.v

\* records of the tests "should encode basic data types", "should encode
\* slices", "should encode custom types", "Should use custom empty & null types"
BasicArgs ==
    { Arg(StructOf(<<Field(<<"S">>, <<>>, TString), Field(<<"I">>, <<>>, TInt(0)),
                     Field(<<"B">>, <<>>, TBool), Field(<<"F">>, <<>>, TFloat(64))>>),
          <<Henry, 23, TRUE, Num(FALSE, <<6, 0, 4, 2, 9>>, 2)>>),
      Arg(OneField(<<>>, SliceOf(TString)), <<SliceVal(<<Vin, Diesel>>)>>),
      Arg(OneField(<<>>, CsvGetter), <<MapVal(<< <<Henry, Vin>> >>)>>),
      Arg(PtrTo(OneField(<<>>, PtrGetter)), << <<<<Henry>>>> >>),
      Arg(OneField(<<>>, PtrGetter), <<<<Henry>>>>),
      Arg(TimeType, <<TwoThousand>>),
      Arg(OneField(<<>>, MapOf(TString, TInt(0))),
          <<MapVal(<< <<Vin, 0>>, <<Diesel, 47>> >>)>>),
      Arg(StructOf(<<Field(<<"N">>, OmitEmptyTag, TString),
                     Field(<<"A">>, <<>>, PtrTo(TInt(0)))>>),
          <<<<>>, <<>>>>) }

\* records Encode cannot marshal
FailingArgs ==
    { Arg(OneField(<<>>, TChan), <<NilSlice>>),
      Arg(OneField(<<>>, TUint), <<7>>),
      Arg(OneField(<<>>, FailingGetter), <<Henry>>),
      Arg(OneField(<<>>, SliceOf(TChan)), <<SliceVal(<<NilSlice>>)>>),
      Arg(TimeType, <<Date(10000, 1, 1, 0, 0, 0, 0, 0)>>) }

\* the record types a pointer field may point to, with a populated value each
ChildTypes ==
    { [t |-> PairType, v |-> <<Henry, Vin>>],
      [t |-> ChildStruct, v |-> <<SliceVal(<<Vin>>), SliceVal(<<47>>)>>],
      [t |-> DashChild, v |-> <<Henry, Vin>>],
      [t |-> PrivateChild, v |-> <<Henry, Vin>>],
      [t |-> NestedChild, v |-> <<Henry, <<Vin, Diesel>>>>],
      [t |-> EmbeddingChild, v |-> <<<<Henry, Vin>>, Diesel>>] }

\* struct { Child *T }, with Child nil and with Child populated
ChildArgs ==
    UNION { { Arg(OneField(<<>>, PtrTo(c.t)), << <<>> >>),
              Arg(OneField(<<>>, PtrTo(c.t)), << <<c.v>> >>) } : c \in ChildTypes }

\* the field types of the omitEmpty records, with a non-zero value each
OmitTypes ==
    { [t |-> TString, v |-> Henry],
      [t |-> TInt(0), v |-> 23],
      [t |-> TBool, v |-> TRUE],
      [t |-> TUint, v |-> 7],
      [t |-> TFloat(64), v |-> Num(FALSE, <<6, 0, 4, 2, 9>>, 2)],
      [t |-> PtrTo(TInt(0)), v |-> <<0>>],
      [t |-> PtrTo(PairType), v |-> << <<<<>>, <<>>>> >>],
      [t |-> SliceOf(TString), v |-> SliceVal(<< <<>> >>)],
      [t |-> MapOf(TString, TInt(0)), v |-> MapVal(<< <<<<>>, 0>> >>)],
      [t |-> PairType, v |-> <<Henry, <<>>>>],
      [t |-> CsvGetter, v |-> MapVal(<< <<Henry, Vin>> >>)],
      [t |-> Stamp, v |-> TwoThousand],
      [t |-> PtrGetter, v |-> <<Henry>>],
      [t |-> PtrTo(CsvGetter), v |-> <<MapVal(<< <<Henry, Vin>> >>)>>],
      [t |-> PtrTo(Stamp), v |-> <<TwoThousand>>],
      [t |-> PtrTo(PtrGetter), v |-> << <<Henry>> >>] }

\* struct { F T `csv:",omitEmpty"` }, with F zero and with F not zero, passed
\* to Encode by value and by pointer
OmitArgs ==
    UNION { { Arg(OneField(OmitEmptyTag, c.t), <<Zero(c.t)>>),
              Arg(OneField(OmitEmptyTag, c.t), <<c.v>>),
              Arg(PtrTo(OneField(OmitEmptyTag, c.t)), << <<Zero(c.t)>> >>),
              Arg(PtrTo(OneField(OmitEmptyTag, c.t)), << <<c.v>> >>) } : c \in OmitTypes }
    \union { Arg(OneField(<<"-">> \o OmitEmptyTag, TString), << <<>> >>),
             Arg(StructOf(<<Field(<<"f">>, OmitEmptyTag, TString)>>), << <<>> >>) }

EncodeArgs == BasicArgs \union FailingArgs \union ChildArgs \union OmitArgs

(***************************************************************************)
(* An Encoder in use: NewEncoder, then Encode calls                        *)
(***************************************************************************)

\* the Encode calls of a caller that keeps using its Encoder, and of a caller
\* that encodes single records
MaxEncodes == 2
MaxRecords == 1

\* an error value: what failed and the call that created it (two errors of
\* different calls are different values); NoError is nil
NoError == [what |-> "", call |-> 0]
ErrorOf(what, call) == [what |-> what, call |-> call]

\* NewEncoder(w)
NewEncoder ==
    [err |-> NoError, EmptyValue |-> DefaultEmptyValue, NilValue |-> DefaultNilValue]

NoEncRet ==
    [calls |-> 0, arg |-> Arg(TBool, FALSE), err |-> NoError, out |-> <<>>,
     wrote |-> FALSE, via |-> "", sub |-> <<>>, panic |-> FALSE, prior |-> NoError,
     enc |-> NewEncoder]

EncInit ==
    /\ encoder = NewEncoder
    /\ writer = [rows |-> <<>>, err |-> NoError]
    /\ encRet = NoEncRet

\* encoder.EmptyValue = s, encoder.NilValue = s: the callers set the sentinels
\* after NewEncoder and before their first Encode (decode.go:469-471)
EncSetEmptyValue(s) ==
    /\ encRet.calls = 0
    /\ encoder' = [encoder EXCEPT !.EmptyValue = s]
    /\ UNCHANGED <<writer, encRet>>
    /\ OnlyEncoder

EncSetNilValue(s) ==
    /\ encRet.calls = 0
    /\ encoder' = [encoder EXCEPT !.NilValue = s]
    /\ UNCHANGED <<writer, encRet>>
    /\ OnlyEncoder

\* enc.w.Write(output) then enc.w.Flush(): the writer after the two calls (w)
\* and the error Write returned (err). Write copies the row into the buffer
\* of the csv.Writer and returns the error the buffer keeps from an earlier
\* Flush, if any. Flush hands the buffer to the underlying writer; when that
\* fails (fail) the row is lost and the buffer keeps the error, but Flush
\* returns nothing and Encode (lines 211-212) does not ask for it: this call
\* returns nil.
\* (A row is far shorter than the buffer, so Write itself never flushes.)
WriterWrite(w, row, fail, call) ==
    IF w.err # NoError THEN [w |-> w, err |-> w.err]
    ELSE IF fail THEN [w |-> [w EXCEPT !.err = ErrorOf("write", call)], err |-> NoError]
    ELSE [w |-> [w EXCEPT !.rows = Append(w.rows, row)], err |-> NoError]

\* what Encode stores in enc.err reaches the Encoder of the caller or not:
\* the receiver of Encode is the Encoder itself, not a pointer to it, so the
\* method works on a copy and the caller's Encoder keeps its err
EncodeStoredErr(enc, err) == enc.err

\* Encoder.Encode(i). encRet keeps the Encoder the call ran on (enc), the
\* cells marshal returned (out), whether the writer took the row (wrote) and
\* the first error an earlier call returned (prior).
Encode(arg, ord, fail) ==
    /\ ~encRet.panic
    /\ OnlyEncoder
    /\ LET call == encRet.calls + 1
           prior == IF encRet.prior # NoError THEN encRet.prior ELSE encRet.err
           ret == [NoEncRet EXCEPT !.calls = call, !.arg = arg, !.prior = prior,
                                   !.enc = encoder]
       IN  IF encoder.err # NoError
           THEN /\ encRet' = [ret EXCEPT !.err = encoder.err, !.via = "sticky"]
                /\ UNCHANGED <<encoder, writer>>
           ELSE LET r == marshal(encoder, arg.t, arg.v, FALSE, FALSE, ord) IN
                IF r.panic
                THEN /\ encRet' = [ret EXCEPT !.panic = TRUE, !.via = r.via]
                     /\ UNCHANGED <<encoder, writer>>
                ELSE IF r.err # ""
                THEN /\ encoder' = [encoder EXCEPT
                                      !.err = EncodeStoredErr(encoder, ErrorOf(r.err, call))]
                     /\ encRet' = [ret EXCEPT !.err = ErrorOf(r.err, call), !.via = r.via]
                     /\ UNCHANGED writer
                ELSE LET ww == WriterWrite(writer, r.out, fail, call) IN
                     /\ writer' = ww.w
                     /\ encoder' = [encoder EXCEPT !.err = EncodeStoredErr(encoder, ww.err)]
                     /\ encRet' = [ret EXCEPT !.err = ww.err, !.via = r.via, !.sub = r.sub,
                                              !.out = r.out,
                                              !.wrote = (ww.w.rows # writer.rows)]

\* a caller that encodes the records args, at most limit of them
EncNext(args, limit) ==
    \/ \E arg \in args : \E ord \in MapOrders(arg.t), fail \in BOOLEAN :
           encRet.calls < limit /\ Encode(arg, ord, fail)
    \/ \E s \in {DefaultEmptyValue, CustomEmpty} : EncSetEmptyValue(s)
    \/ \E s \in {DefaultNilValue, CustomNil} : EncSetNilValue(s)

(***************************************************************************)
(* Properties of the Encoder                                               *)
(***************************************************************************)

\* C1: after an Encode call on an Encoder has failed, every later Encode call
\* on it returns the identical error and writes no row to the writer.
C1_EncodeErrorIsSticky ==
    (encRet.prior # NoError /\ ~encRet.panic) =>
        (encRet.err = encRet.prior /\ ~encRet.wrote)

\* the argument is struct { F T } and T is a pointer to a record type
IsChildArg(arg) ==
    /\ arg.t.k = "struct"
    /\ Len(arg.t.fields) = 1
    /\ arg.t.fields[1].type.k = "ptr"
    /\ Elem(arg.t.fields[1].type).k = "struct"

\* the fields of record type t that encoding does not pass over
EncodedFields(t) == {j \in 1..Len(t.fields) : ~SkipField(t.fields[j])}

\* the cells of a populated value of the record type of the pointer field
PopulatedCells(enc, arg) ==
    LET c == CHOOSE c \in ChildTypes : c.t = Elem(arg.t.fields[1].type) IN
    marshal(enc, arg.t, << <<c.v>> >>, FALSE, FALSE, "fwd").out

\* C4: encoding a nil pointer-to-record field yields one NilValue cell per
\* non-skipped field of the record type, as many cells as a populated value of
\* the same record type yields.
C4_NilRecordWidth ==
    (/\ encRet.calls > 0 /\ IsChildArg(encRet.arg) /\ encRet.arg.v[1] = <<>>
     /\ ~encRet.panic /\ encRet.via # "sticky" /\ encRet.prior = NoError) =>
        /\ encRet.out = [i \in 1..Cardinality(EncodedFields(Elem(encRet.arg.t.fields[1].type)))
                           |-> encRet.enc.NilValue]
        /\ Len(encRet.out) = Len(PopulatedCells(encRet.enc, encRet.arg))

\* the argument is struct { F T `csv:",omitEmpty"` } or a pointer to one,
\* and Encode does not pass over F
IsOmitArg(arg) ==
    /\ RecordType(arg).k = "struct"
    /\ Len(RecordType(arg).fields) = 1
    /\ TagOmitEmpty(RecordType(arg).fields[1].tag)
    /\ ~SkipField(RecordType(arg).fields[1])

\* the type and the value of the field of such an argument, and whether the
\* field is addressable: it is when Encode was given a pointer to the record
OmitType(arg) == RecordType(arg).fields[1].type
OmitValue(arg) == RecordValue(arg)[1]
OmitAddr(arg) == arg.t.k = "ptr"

\* the last call marshalled such a record
MarshalledOmitArg ==
    encRet.calls > 0 /\ IsOmitArg(encRet.arg) /\ encRet.via # "sticky"

\* the last call encoded such a record and marshal returned its cells (the
\* only error left is one of the writer)
EncodedOmitArg ==
    MarshalledOmitArg /\ ~encRet.panic /\ encRet.err.what \in {"", "write"}

\* the elements of a slice, the keys and values of a map encoded one by one
\* with omitEmpty off
ElementsCell(enc, t, v) ==
    IF t.k = "slice"
    THEN Join([i \in 1..Len(v.elems) |->
                  Join(marshal(enc, Elem(t), v.elems[i], FALSE, TRUE, "fwd").out, <<",">>)],
              <<",">>)
    ELSE Join([i \in 1..Len(v.entries) |->
                  Join(marshal(enc, t.key[1], v.entries[i][1], FALSE, FALSE, "fwd").out, <<",">>)
                  \o <<":">>
                  \o Join(marshal(enc, Elem(t), v.entries[i][2], FALSE, FALSE, "fwd").out, <<",">>)],
              <<",">>)

\* omit-empty is not handed to the elements of a slice or the entries of a
\* map: a slice or map that is not zero is the join of its elements' cells
OmitEmptyStopsAtElements ==
    (/\ EncodedOmitArg /\ OmitType(encRet.arg).k \in {"slice", "map"}
     /\ EncodeHook(OmitType(encRet.arg), OmitAddr(encRet.arg)) = "none"
     /\ OmitValue(encRet.arg) # Zero(OmitType(encRet.arg))) =>
        encRet.out = <<ElementsCell(encRet.enc, OmitType(encRet.arg), OmitValue(encRet.arg))>>

\* C6 as claimed: a zero-valued omitEmpty field yields exactly one cell, the
\* EmptyValue, whatever its kind (scalar, pointer, sequence, record, hook
\* type), and omit-empty is not handed to elements.
C6_OmitEmptyAnyKind ==
    /\ (EncodedOmitArg /\ OmitValue(encRet.arg) = Zero(OmitType(encRet.arg))) =>
           encRet.out = <<encRet.enc.EmptyValue>>
    /\ OmitEmptyStopsAtElements

\* the hook marshal finds for a field is a method with a value receiver that
\* it reaches through a pointer
HookThroughPointer(t, hook) ==
    /\ t.k = "ptr"
    /\ Elem(t).hooks[IF hook = "GetCSV" THEN "getter" ELSE "textm"] = "value"

\* the text of the zero time.Time
ZeroTimeText ==
    <<"0", "0", "0", "1", "-", "0", "1", "-", "0", "1", "T",
      "0", "0", ":", "0", "0", ":", "0", "0", "Z">>

\* what a zero-valued omitEmpty field of type t gives: the hook in reach of
\* the field comes first (GetCSV before MarshalText) and is called whatever
\* the value, which for a value-receiver hook found through the nil pointer is
\* a panic; without a hook a nil pointer gives the NilValue cells of a nil
\* pointer; any other zero value gives the one EmptyValue cell
ZeroOmitFieldGives(ret, t, hook) ==
    IF hook # "none" /\ HookThroughPointer(t, hook)
    THEN ret.panic /\ ret.via = hook
    ELSE /\ ~ret.panic /\ ret.err.what \in {"", "write"}
         /\ IF hook # "none"
            THEN /\ ret.sub = <<hook>>
                 /\ ret.out = (IF hook = "GetCSV" THEN GetCSVOutput
                               ELSE <<ZeroTimeText>>)
            ELSE IF t.k = "ptr"
            THEN ret.out = MarshalNil(ret.enc, t).out
            ELSE ret.out = <<ret.enc.EmptyValue>>

\* C6 amended: a zero-valued omitEmpty field yields exactly one cell, the
\* EmptyValue, unless a hook is in reach of the field (then the hook is
\* called: its cells, or a panic for a value-receiver hook on a nil pointer)
\* or the field is a nil pointer without one (then the NilValue cells of a
\* nil pointer); omit-empty is not handed to elements.
C6_OmitEmptyAfterHookAndNil ==
    /\ (MarshalledOmitArg /\ OmitValue(encRet.arg) = Zero(OmitType(encRet.arg))) =>
           ZeroOmitFieldGives(encRet, OmitType(encRet.arg),
                              EncodeHook(OmitType(encRet.arg), OmitAddr(encRet.arg)))
    /\ OmitEmptyStopsAtElements

\* a zero-valued two-field record with omitEmpty was encoded as the one
\* EmptyValue cell, here a custom one
C6_Witness ==
    /\ EncodedOmitArg
    /\ OmitType(encRet.arg) = PairType
    /\ OmitValue(encRet.arg) = Zero(PairType)
    /\ encRet.enc.EmptyValue = CustomEmpty
    /\ encRet.out = <<CustomEmpty>>

(***************************************************************************)
(* The Decoder                                                             *)
(***************************************************************************)

\* what the SetCSV of the types of the model stores in its receiver, whatever
\* the cell: as that of the test type csvgetter (encode.go:234-237), a value
\* that spells set, which for a record is set in its string fields, the other
\* fields zero
SetCSVValue(t) ==
    CASE t.k = "map" -> MapVal(<< << <<"s", "e", "t">>, <<"c", "s", "v">> >> >>)
      [] t.k = "struct" ->
           [i \in 1..Len(t.fields) |->
               IF t.fields[i].type.k = "string" THEN <<"s", "e", "t">>
               ELSE Zero(t.fields[i].type)]
      [] OTHER -> <<"s", "e", "t">>

\* readStringTo, lines 98-103: UnmarshalText (time.Time.UnmarshalText) stores
\* in its receiver the time the cell spells, or the zero Time with its error
ReadText(t, cur, r) ==
    IF r.err THEN Failed(WithTime(t, cur, r.t), "hook", "UnmarshalText")
    ELSE Returned(WithTime(t, cur, r.t), "UnmarshalText", <<>>)

\* the hook readStringTo uses for a field, in the order it looks for them; the
\* fields of a decoded record are addressable
DecodeHook(t) ==
    IF IndirectFinds(t, "setter", TRUE) THEN "SetCSV"
    ELSE IF IndirectFinds(t, "textu", TRUE) THEN "UnmarshalText"
    ELSE "none"

\* readStringTo, lines 91-103: the hook of the field takes the cell. A hook
\* found on a pointer that is still nil is called on the nil pointer.
ReadHook(t, cur, value) ==
    IF t.k = "ptr" THEN Panicked(cur, DecodeHook(t))
    ELSE IF DecodeHook(t) = "UnmarshalText" THEN ReadText(t, cur, TimeUnmarshalText(value))
    ELSE IF t.hooks.fails THEN Failed(cur, "hook", "SetCSV")
    ELSE Returned(SetCSVValue(t), "SetCSV", <<>>)

\* readStringTo, line 69: the cell stands for nil
IsNilCell(dec, value) == value = dec.NilValue

\* a readStringTo that knows the default EmptyValue only
EmptyCellByDefault(dec, value) == value = DefaultEmptyValue

\* readStringTo, line 86: the cell stands for the zero value
IsEmptyCell(dec, value) == value = dec.EmptyValue

\* readStringTo, lines 105-155: the scalar the cell spells
ReadScalar(t, cur, value) ==
    CASE t.k = "string" -> Returned(value, "string", <<>>)
      [] t.k = "int" ->
           LET p == ParseInt(value, t.bits) IN
           IF p.err # "" THEN Failed(cur, p.err, "int") ELSE Returned(p.i, "int", <<>>)
      [] t.k = "float" ->
           LET p == ParseFloat(value, t.bits) IN
           IF p.err # "" THEN Failed(cur, p.err, "float") ELSE Returned(p.f, "float", <<>>)
      [] t.k = "bool" ->
           LET p == ParseBool(value) IN
           IF p.err # "" THEN Failed(cur, p.err, "bool") ELSE Returned(p.b, "bool", <<>>)
      [] OTHER -> Failed(cur, "unsupported", "default")

\* readStructTo, lines 213-221: the key a field is looked up by, the name of
\* its csv tag or else its Go name in lower case
FieldName(f) ==
    LET key == Split(f.tag, ",") IN
    IF key[1] = <<>> THEN ToLower(f.name) ELSE key[1]

\* the call returned no error and did not panic
Ok(r) == ~r.panic /\ r.err = ""

\* readStringTo, lines 76-79: the field is set to the new pointer before the
\* cell is read into the pointee, whatever comes of reading it
PointTo(r) == [r EXCEPT !.out = <<r.out>>]

\* a slice case that sets the field to the new slice whatever its elements gave
SetSliceAsFilled(cur, r) ==
    IF Ok(r) THEN Returned(SliceVal(r.out), "slice", <<>>)
    ELSE [r EXCEPT !.out = SliceVal(r.out)]

\* readStringTo, lines 166-167: the field is set to the new slice once every
\* element was read, and is left as it was (cur) otherwise
SetSlice(cur, r) ==
    IF Ok(r) THEN Returned(SliceVal(r.out), "slice", <<>>) ELSE [r EXCEPT !.out = cur]

\* readCellValuesTo, lines 178-184 and 195-198: the field is set to the new
\* pointer if it is one, and the error of the Decoder is returned
CellValuesRead(dec, t, r) ==
    LET done == IF Ok(r) /\ dec.err.what # "" THEN Failed(r.out, dec.err.what, "sticky")
                ELSE r
    IN  [done EXCEPT !.out = IF t.k = "ptr" THEN <<done.out>> ELSE done.out,
                     !.via = IF done.via = "struct" THEN "tree" ELSE done.via]

RECURSIVE readStringTo(_, _, _, _)
RECURSIVE readValue(_, _, _, _)
RECURSIVE readElements(_, _, _, _, _)
RECURSIVE ElementRead(_, _, _, _, _, _)
RECURSIVE readCellValuesTo(_, _, _, _)
RECURSIVE readStructTo(_, _, _, _)
RECURSIVE readFields(_, _, _, _, _, _)
RECURSIVE readField(_, _, _, _)
RECURSIVE FieldRead(_, _, _, _, _, _, _)

\* Decoder.readStringTo: the field of type t holding cur after the cell value
\* was read into it (out), or as the failed call left it
readStringTo(dec, t, cur, value) ==
    IF IsNilCell(dec, value) THEN Returned(cur, "nil", <<>>)
    ELSE IF t.k = "ptr" THEN PointTo(readValue(dec, Elem(t), Zero(Elem(t)), value))
    ELSE readValue(dec, t, cur, value)

\* Decoder.readStringTo from line 82 on: the field is no pointer any more, or
\* the pointee of the pointer just allocated
readValue(dec, t, cur, value) ==
    IF IsEmptyCell(dec, value) THEN Returned(cur, "empty", <<>>)
    ELSE IF DecodeHook(t) # "none" THEN ReadHook(t, cur, value)
    ELSE IF t.k = "slice"
    THEN SetSlice(cur, readElements(dec, t, Split(value, ","), 1, <<>>))
    ELSE ReadScalar(t, cur, value)

\* the loop of the reflect.Slice case from element i on; done are the
\* elements read before it
readElements(dec, t, values, i, done) ==
    IF i > Len(values) THEN Returned(done, "slice", <<>>)
    ELSE ElementRead(dec, t, values, i, done,
                     readStringTo(dec, Elem(t), Zero(Elem(t)), values[i]))

\* the body of that loop once element i was read with result e; when the
\* element fails, out is the new slice as far as it was filled
ElementRead(dec, t, values, i, done, e) ==
    IF Ok(e) THEN readElements(dec, t, values, i + 1, Append(done, e.out))
    ELSE [e EXCEPT !.out = Append(done, e.out)]

\* Decoder.readCellValuesTo: a nested CellValues read into a field
readCellValuesTo(dec, t, cur, values) ==
    IF t.k = "ptr"
    THEN IF Elem(t).k = "struct"
         THEN CellValuesRead(dec, t, readStructTo(dec, Elem(t), Zero(Elem(t)), values))
         ELSE CellValuesRead(dec, t, Failed(Zero(Elem(t)), "unsupported", "default"))
    ELSE IF t.k = "struct" THEN CellValuesRead(dec, t, readStructTo(dec, t, cur, values))
    ELSE CellValuesRead(dec, t, Failed(cur, "unsupported", "default"))

\* Decoder.readStructTo: the value of type t holding cur after the cells of
\* values were read into the fields of the record it is or points to. Lines
\* 203-207 take Elem() once: of a nil pointer it is the zero Value, whose
\* Type() panics, and what is no record after it makes NumField() panic.
readStructTo(dec, t, cur, values) ==
    IF t.k = "ptr"
    THEN IF cur = <<>> THEN Panicked(cur, "Type")
         ELSE IF Elem(t).k # "struct" THEN Panicked(cur, "NumField")
         ELSE PointTo(readFields(dec, Elem(t), cur[1], values, 1, <<>>))
    ELSE IF t.k # "struct" THEN Panicked(cur, "NumField")
    ELSE readFields(dec, t, cur, values, 1, <<>>)

\* the loop of readStructTo from field i on; sub lists the branch taken for
\* each field before it
readFields(dec, t, cur, values, i, sub) ==
    IF i > Len(t.fields) THEN Returned(cur, "struct", sub)
    ELSE FieldRead(dec, t, cur, values, i, sub, readField(dec, t.fields[i], cur[i], values))

\* the body of that loop for field f holding cur
readField(dec, f, cur, values) ==
    IF SkipField(f) THEN Returned(cur, "skip", <<>>)
    ELSE IF f.anonymous THEN readStructTo(dec, f.type, cur, values)
    ELSE IF ~CellValuesGet(values, FieldName(f)).ok THEN Returned(cur, "absent", <<>>)
    ELSE IF CellValuesGet(values, FieldName(f)).cell.kind = "tree"
    THEN readCellValuesTo(dec, f.type, cur, CellValuesGet(values, FieldName(f)).cell.sub)
    ELSE readStringTo(dec, f.type, cur, CellValuesGet(values, FieldName(f)).cell.str)

\* the loop goes on after field i was read with result r, or returns its error
FieldRead(dec, t, cur, values, i, sub, r) ==
    IF Ok(r)
    THEN readFields(dec, t, [cur EXCEPT ![i] = r.out], values, i + 1, Append(sub, r.via))
    ELSE [r EXCEPT !.out = [cur EXCEPT ![i] = r.out]]

RECURSIVE BuildCellValues(_, _, _, _)
\* Decode, lines 292-295: m.Set(key, r[i]) for the keys of the header in order
BuildCellValues(vs, header, row, i) ==
    IF i > Len(header) THEN [panic |-> FALSE, vs |-> vs]
    ELSE IF i > Len(row) THEN [panic |-> TRUE, vs |-> vs]
    ELSE LET r == CellValuesSet(vs, header[i], row[i]) IN
         IF r.panic THEN r ELSE BuildCellValues(r.vs, header, row, i + 1)

(***************************************************************************)
(* The Decoder in use                                                      *)
(***************************************************************************)

MaxDecodes == 3

\* a record of the input of the csv.Reader: the cells of a line, or the
\* error reading the line gives (a bare quote, a failing io.Reader)
RowItem(row) == [row |-> row, err |-> ""]
ErrItem == [row |-> <<>>, err |-> "read"]

NoReader == [items |-> <<>>, pos |-> 1, fields |-> 0]

\* csv.Reader.Read as NewDecoder and Decode call it: the record, the error
\* and the reader after the call. Past the last record the error is io.EOF,
\* one value whoever returns it; every other error is a value of its own.
\* The first record sets the number of fields of the records that follow
\* (FieldsPerRecord is 0), and a record of another length comes with
\* ErrFieldCount.
ReaderRead(r) ==
    IF r.pos > Len(r.items)
    THEN [row |-> <<>>, err |-> ErrorOf("EOF", 0), r |-> r]
    ELSE LET item == r.items[r.pos]
             moved == [r EXCEPT !.pos = r.pos + 1]
         IN  IF item.err # ""
             THEN [row |-> <<>>, err |-> ErrorOf(item.err, r.pos), r |-> moved]
             ELSE IF r.fields = 0
             THEN [row |-> item.row, err |-> NoError,
                   r |-> [moved EXCEPT !.fields = Len(item.row)]]
             ELSE IF Len(item.row) # r.fields
             THEN [row |-> item.row, err |-> ErrorOf("fieldcount", r.pos), r |-> moved]
             ELSE [row |-> item.row, err |-> NoError, r |-> moved]

NoDecoder ==
    [made |-> FALSE, header |-> <<>>, err |-> NoError,
     EmptyValue |-> DefaultEmptyValue, NilValue |-> DefaultNilValue]

NoTarget == [t |-> TBool, v |-> FALSE]

NoDecRet ==
    [calls |-> 0, err |-> NoError, via |-> "", sub |-> <<>>, panic |-> FALSE,
     prior |-> NoError, before |-> FALSE, pos |-> 1, row |-> <<>>, read |-> FALSE,
     dec |-> NoDecoder]

DecIdle ==
    /\ decoder = NoDecoder
    /\ reader = NoReader
    /\ target = NoTarget
    /\ decRet = NoDecRet

\* dec := NewDecoder(csv.NewReader(input)); var target T, or target := v. The
\* header is the first record of the input, and the error of reading it is
\* kept in dec.err.
NewDecoder(items, t, v) ==
    /\ ~decoder.made
    /\ LET h == ReaderRead([NoReader EXCEPT !.items = items]) IN
       /\ reader' = h.r
       /\ decoder' = [NoDecoder EXCEPT !.made = TRUE, !.header = h.row, !.err = h.err]
    /\ target' = [t |-> t, v |-> v]
    /\ UNCHANGED decRet
    /\ OnlyDecoder

\* dec.EmptyValue = s, dec.NilValue = s: the callers set the sentinels after
\* NewDecoder and before their first Decode (encode.go:365-367)
DecSetEmptyValue(s) ==
    /\ decoder.made
    /\ decRet.calls = 0
    /\ decoder' = [decoder EXCEPT !.EmptyValue = s]
    /\ UNCHANGED <<reader, target, decRet>>
    /\ OnlyDecoder

DecSetNilValue(s) ==
    /\ decoder.made
    /\ decRet.calls = 0
    /\ decoder' = [decoder EXCEPT !.NilValue = s]
    /\ UNCHANGED <<reader, target, decRet>>
    /\ OnlyDecoder

\* a Decode whose receiver is a copy of the Decoder: the error it stores is lost
DecodeErrOnCopy(dec, err) == dec.err

\* what Decode stores in dec.err: the receiver of Decode is a pointer to the
\* Decoder, so the error reaches the Decoder of the caller
DecodeStoredErr(dec, err) == err

\* what a Decode call leaves: the Decoder, the reader, the target, and ret
\* for decRet
Outcome(dec, rdr, tgt, ret) == [decoder |-> dec, reader |-> rdr, target |-> tgt, ret |-> ret]

\* Decode, lines 297-304: readStructTo returned r for the pointer to the
\* target; its error is stored in dec.err and returned, and the target keeps
\* what was read into it
DecodeInto(dec, rdr, tgt, ret, r) ==
    IF r.panic
    THEN Outcome(dec, rdr, [tgt EXCEPT !.v = r.out[1]],
                 [ret EXCEPT !.panic = TRUE, !.via = r.via])
    ELSE IF r.err # ""
    THEN Outcome([dec EXCEPT !.err = DecodeStoredErr(dec, ErrorOf(r.err, ret.calls))], rdr,
                 [tgt EXCEPT !.v = r.out[1]],
                 [ret EXCEPT !.err = ErrorOf(r.err, ret.calls), !.via = r.via])
    ELSE Outcome(dec, rdr, [tgt EXCEPT !.v = r.out[1]],
                 [ret EXCEPT !.via = r.via, !.sub = r.sub])

\* Decode, lines 290-300: the cells of the row are set under the keys of the
\* header (m), and read into the target, of which Decode is given the address
DecodeCells(dec, rdr, tgt, ret, m) ==
    IF m.panic THEN Outcome(dec, rdr, tgt, [ret EXCEPT !.panic = TRUE, !.via = "Set"])
    ELSE DecodeInto(dec, rdr, tgt, ret, readStructTo(dec, PtrTo(tgt.t), <<tgt.v>>, m.vs))

\* Decode, lines 284-295: the next row is read (rd); the error of reading it
\* is stored in dec.err and returned
DecodeRow(dec, tgt, ret, rd) ==
    IF rd.err # NoError
    THEN Outcome([dec EXCEPT !.err = DecodeStoredErr(dec, rd.err)], rd.r, tgt,
                 [ret EXCEPT !.err = rd.err, !.via = "read"])
    ELSE DecodeCells(dec, rd.r, tgt, [ret EXCEPT !.row = rd.row, !.read = TRUE],
                     BuildCellValues(EmptyCellValues, dec.header, rd.row, 1))

\* Decoder.Decode(&target) and what it leaves. ret keeps the Decoder the call
\* ran on (dec), the target and the position of the reader before the call
\* (before, pos), the row read (row, read) and the first error NewDecoder
\* kept or an earlier call returned (prior).
DecodeCall(dec, rdr, tgt, last) ==
    IF dec.err # NoError
    THEN Outcome(dec, rdr, tgt,
                 [NoDecRet EXCEPT !.calls = last.calls + 1, !.prior = dec.err,
                                  !.before = tgt.v, !.pos = rdr.pos, !.dec = dec,
                                  !.err = dec.err, !.via = "sticky"])
    ELSE DecodeRow(dec, tgt,
                   [NoDecRet EXCEPT !.calls = last.calls + 1,
                                    !.prior = IF last.prior # NoError THEN last.prior
                                              ELSE last.err,
                                    !.before = tgt.v, !.pos = rdr.pos, !.dec = dec],
                   ReaderRead(rdr))

\* the caller calls dec.Decode(&target)
Decode ==
    /\ decoder.made
    /\ ~decRet.panic
    /\ decRet.calls < MaxDecodes
    /\ OnlyDecoder
    /\ \E d \in {DecodeCall(decoder, reader, target, decRet)} :
          /\ decoder' = d.decoder
          /\ reader' = d.reader
          /\ target' = d.target
          /\ decRet' = d.ret

(***************************************************************************)
(* Inputs of the Decoder (the records of the decode tests and variants)    *)
(***************************************************************************)

Str_name == <<"n", "a", "m", "e">>
Str_age == <<"a", "g", "e">>
Str_old == <<"o", "l", "d">>
Str_true == <<"t", "r", "u", "e">>

\* struct { Name string; Age *int }  (encode.go:362-364)
PersonType ==
    StructOf(<<Field(<<"N", "a", "m", "e">>, <<>>, TString),
               Field(<<"A", "g", "e">>, <<>>, PtrTo(TInt(0)))>>)

\* struct { B bool; I int8; F float64; L []int; G csvgetter }
KindsType ==
    StructOf(<<Field(<<"B">>, <<>>, TBool), Field(<<"I">>, <<>>, TInt(8)),
               Field(<<"F">>, <<>>, TFloat(64)), Field(<<"L">>, <<>>, SliceOf(TInt(0))),
               Field(<<"G">>, <<>>, CsvGetter)>>)

PersonHeader == <<Str_name, Str_age>>
KindsHeader == << <<"b">>, <<"i">>, <<"f">>, <<"l">>, <<"g">> >>

\* the lines after the header: rows of sentinels, rows of values, a row with
\* a cell that does not convert, a row with a cell too many, a line the
\* reader fails on
PersonLines ==
    { RowItem(<<CustomEmpty, CustomNil>>), RowItem(<<Henry, <<"4", "7">> >>),
      RowItem(<<DefaultEmptyValue, DefaultNilValue>>),
      RowItem(<<DefaultNilValue, DefaultEmptyValue>>),
      RowItem(<<Henry, Str_old>>), RowItem(<<Henry, CustomEmpty>>),
      RowItem(<<Henry, <<"4", "7">>, Vin>>), ErrItem }

KindsLines ==
    { RowItem([i \in 1..5 |-> DefaultEmptyValue]), RowItem([i \in 1..5 |-> DefaultNilValue]),
      RowItem([i \in 1..5 |-> CustomEmpty]),
      RowItem(<<Str_true, <<"5">>, <<"1", ".", "5">>, <<"1", ",", "2">>, Vin>>),
      RowItem(<<Str_true, <<"3", "0", "0">>, <<"1", ".", "5">>, <<"1">>, Vin>>),
      RowItem(<<Str_true, <<"5">>, <<"1", ".", "5">>, <<"7", ",", "x">>, Vin>>),
      RowItem(<<Str_true, <<"5">>, <<"1", ".", "5">>, <<"x", ",", "7">>, Vin>>),
      RowItem(<<Str_true, <<"5">>, <<"0", "x", "1", "p", "-", "2">>, <<"1">>, Vin>>) }

\* struct { Time *time.Time }
TimePointerType == StructOf(<<Field(<<"T", "i", "m", "e">>, <<>>, PtrTo(Stamp))>>)

TimeHeader == << <<"t", "i", "m", "e">> >>

Str_TwoThousand ==
    <<"2", "0", "0", "0", "-", "1", "0", "-", "0", "9", "T", "0", "8", ":", "0", "7",
      ":", "0", "6", ".", "0", "0", "0", "0", "0", "0", "0", "0", "5", "Z">>
Str_1999 ==
    <<"1", "9", "9", "9", "-", "0", "1", "-", "0", "2", "T", "0", "3", ":", "0", "4",
      ":", "0", "5", "Z">>
Str_OneDigitHour ==
    <<"2", "0", "0", "0", "-", "1", "0", "-", "0", "9", "T", "8", ":", "0", "7",
      ":", "0", "6", ",", "5", "+", "0", "9", ":", "3", "0">>
Str_NoLeapDay ==
    <<"2", "0", "0", "1", "-", "0", "2", "-", "2", "9", "T", "0", "0", ":", "0", "0",
      ":", "0", "0", "Z">>

\* the rows of the input of "should decode time" (encode.go:340) and others:
\* another instant, a cell that is no time, a time in a zone with an hour of
\* one digit and a comma before the fraction, a day its month does not have,
\* and the sentinels
TimeLines ==
    { RowItem(<<Str_TwoThousand>>), RowItem(<<Str_1999>>), RowItem(<<Vin>>),
      RowItem(<<Str_OneDigitHour>>), RowItem(<<Str_NoLeapDay>>),
      RowItem(<<CustomEmpty>>), RowItem(<<DefaultNilValue>>) }

MaxLines == 2

\* the sequences of at most MaxLines lines
LinesOf(lines) == UNION { [1..n -> lines] : n \in 0..MaxLines }

\* an input of a Decoder and the type of the record it is decoded into
DecInput(t, header, lines) == [t |-> t, v |-> Zero(t), items |-> <<header>> \o lines]

\* var p *personStruct, nil or pointing to a zero record: Decode(&p) is given
\* a pointer to a pointer
PointerInputs ==
    { [t |-> PtrTo(PersonType), v |-> p, items |-> <<RowItem(PersonHeader), line>>] :
        p \in {Zero(PtrTo(PersonType)), <<Zero(PersonType)>>}, line \in PersonLines }

DecInputs ==
    { DecInput(PersonType, RowItem(PersonHeader), l) : l \in LinesOf(PersonLines) }
    \union { DecInput(KindsType, RowItem(KindsHeader), l) : l \in LinesOf(KindsLines) }
    \union { DecInput(PersonType, ErrItem, <<RowItem(<<Henry, <<"4", "7">> >>)>>),
             [t |-> PersonType, v |-> Zero(PersonType), items |-> <<>>],
             DecInput(PersonType, RowItem(<<Str_name, Str_name \o <<".", "x">> >>),
                      <<RowItem(<<Henry, Vin>>)>>) }
    \union { DecInput(TimeType, RowItem(TimeHeader), l) : l \in LinesOf(TimeLines) }
    \union { DecInput(TimePointerType, RowItem(TimeHeader), <<l>>) : l \in TimeLines }
    \union PointerInputs

DecEmptyValues == {DefaultEmptyValue, CustomEmpty}
DecNilValues == {DefaultNilValue, CustomNil, CustomEmpty}

DecNext(inputs) ==
    \/ \E input \in inputs : NewDecoder(input.items, input.t, input.v)
    \/ \E s \in DecEmptyValues : DecSetEmptyValue(s)
    \/ \E s \in DecNilValues : DecSetNilValue(s)
    \/ Decode

(***************************************************************************)
(* Properties of the Decoder                                               *)
(***************************************************************************)

\* C2: once NewDecoder failed to read the header or a Decode call returned
\* an error (end of input, a row the reader fails on, a cell that does not
\* convert), every later Decode call returns that same error, reads no row
\* and leaves the target as it was
C2_DecodeErrorIsSticky ==
    (decRet.calls > 0 /\ decRet.prior # NoError) =>
        /\ decRet.err = decRet.prior
        /\ ~decRet.read
        /\ reader.pos = decRet.pos
        /\ target.v = decRet.before

\* a second Decode after a cell failed to convert, with a row still to read
C2_Witness ==
    /\ decRet.calls > 1
    /\ decRet.prior.what = "syntax"
    /\ decRet.err = decRet.prior
    /\ reader.pos <= Len(reader.items)

\* the cell of the last row read for field i of the target, when the header
\* names the field with a plain key
CellRead(i) ==
    LET m == BuildCellValues(EmptyCellValues, decRet.dec.header, decRet.row, 1)
    IN  CellValuesGet(m.vs, FieldName(target.t.fields[i]))

\* the fields of the target the last Decode read a cell for
FieldsRead ==
    IF decRet.read /\ decRet.err = NoError /\ ~decRet.panic
    THEN { i \in 1..Len(target.t.fields) :
             /\ ~SkipField(target.t.fields[i]) /\ ~target.t.fields[i].anonymous
             /\ CellRead(i).ok /\ CellRead(i).cell.kind = "string" }
    ELSE {}

\* C10: a cell equal to NilValue leaves the field as it was (a nil pointer
\* stays nil); any other cell equal to EmptyValue leaves a field that is no
\* pointer as it was, at its zero value in a new target, and makes a pointer
\* field point to a new zero value; with the sentinels the caller has set
C10_SentinelCells ==
    \A i \in FieldsRead :
        LET f == target.t.fields[i]
            cell == CellRead(i).cell.str
        IN  /\ cell = decRet.dec.NilValue => target.v[i] = decRet.before[i]
            /\ (cell # decRet.dec.NilValue /\ cell = decRet.dec.EmptyValue) =>
                   IF f.type.k = "ptr"
                   THEN target.v[i] = <<Zero(Elem(f.type))>>
                   ELSE /\ target.v[i] = decRet.before[i]
                        /\ decRet.calls = 1 => target.v[i] = Zero(f.type)

\* header name,age, row VIN,IMMORTAL, EmptyValue VIN, NilValue IMMORTAL
C10_Witness ==
    /\ decRet.calls = 1 /\ decRet.read /\ decRet.err = NoError
    /\ target.t = PersonType
    /\ decRet.row = <<CustomEmpty, CustomNil>>
    /\ decRet.dec.EmptyValue = CustomEmpty /\ decRet.dec.NilValue = CustomNil
    /\ target.v = <<DefaultEmptyValue, <<>>>>

\* the fields of kind slice of the target whose cell in the last row read has
\* an element that cannot be read
SliceFieldsFailed ==
    IF decRet.calls > 0 /\ decRet.read /\ ~decRet.panic
    THEN { i \in 1..Len(target.t.fields) :
             /\ ~SkipField(target.t.fields[i]) /\ ~target.t.fields[i].anonymous
             /\ target.t.fields[i].type.k = "slice"
             /\ DecodeHook(target.t.fields[i].type) = "none"
             /\ CellRead(i).ok /\ CellRead(i).cell.kind = "string"
             /\ CellRead(i).cell.str # decRet.dec.NilValue
             /\ CellRead(i).cell.str # decRet.dec.EmptyValue
             /\ \E j \in 1..Len(Split(CellRead(i).cell.str, ",")) :
                    ~Ok(readStringTo(decRet.dec, Elem(target.t.fields[i].type),
                                     Zero(Elem(target.t.fields[i].type)),
                                     Split(CellRead(i).cell.str, ",")[j])) }
    ELSE {}

\* C12: when an element of the cell of a slice field cannot be read, Decode
\* returns an error and the field holds the slice it held before the call:
\* the new slice is never seen partly filled
C12_SliceSetOnceRead ==
    \A i \in SliceFieldsFailed :
        /\ decRet.err # NoError
        /\ decoder.err = decRet.err
        /\ target.v[i] = decRet.before[i]

\* a first row set L to [1 2]; the second row has 7,x for L, and L is [1 2]
\* still after the Decode that returned the error of x
C12_Witness ==
    /\ decRet.calls = 2 /\ decRet.err.what = "syntax"
    /\ target.t = KindsType
    /\ 4 \in SliceFieldsFailed
    /\ CellRead(4).cell.str = <<"7", ",", "x">>
    /\ decRet.before[4] = SliceVal(<<1, 2>>)
    /\ target.v[4] = SliceVal(<<1, 2>>)

(***************************************************************************)
(* Encoding a record and decoding the row written                          *)
(***************************************************************************)

\* floats of a size: 0, -0, 1.5, -0.125, 20.375, 1000, the infinities and
\* NaN; then the float64 60.429 and 50.534 of the tests (decode.go:341 and
\* 386), 0.1, 1e-07 and 1e+22, and the float32 nearest to 60.429 and to
\* 0.1, and 16777216
FloatValues(bitSize) ==
    { Num(FALSE, <<>>, 0), Num(TRUE, <<>>, 0), Num(FALSE, <<1, 5>>, 1),
      Num(TRUE, <<1, 2, 5>>, 0), Num(FALSE, <<2, 0, 3, 7, 5>>, 2), Num(FALSE, <<1>>, 4),
      Infinity(FALSE), Infinity(TRUE), NaN }
    \union (IF bitSize = 64
            THEN { Num(FALSE, <<6, 0, 4, 2, 9>>, 2), Num(FALSE, <<5, 0, 5, 3, 4>>, 2),
                   Num(FALSE, <<1>>, 0), Num(FALSE, <<1>>, -6), Num(FALSE, <<1>>, 23) }
            ELSE { Num(FALSE, <<6, 0, 4, 2, 9, 0, 0, 0, 8, 5, 4, 4, 9, 2, 1, 9>>, 2),
                   Num(FALSE, <<1, 0, 0, 0, 0, 0, 0, 0, 1, 4, 9, 0, 1, 1, 6, 1, 2>>, 0),
                   Num(FALSE, <<1, 6, 7, 7, 7, 2, 1, 6>>, 8) })

Str_0x1f == <<"0", "x", "1", "f">>
Str_a_b == <<"a", ",", "b">>

\* struct { F T } for every scalar type T, with values of T
ScalarArgs ==
    { Arg(OneField(<<>>, TBool), <<b>>) : b \in BOOLEAN }
    \union { Arg(OneField(<<>>, TInt(w)), <<i>>) :
                w \in {0, 8, 16, 32, 64}, i \in {0, 5, -3, 127, -128} }
    \union { Arg(OneField(<<>>, TFloat(32)), <<f>>) : f \in FloatValues(32) }
    \union { Arg(OneField(<<>>, TFloat(64)), <<f>>) : f \in FloatValues(64) }
    \union { Arg(OneField(<<>>, TString), <<str>>) :
                str \in {<<>>, Henry, DefaultNilValue, CustomEmpty, Str_0x1f, Str_a_b} }

\* struct { F []T } (encode.go:320-322) with slices of strings, of other
\* scalars, of pointers, of slices and of records
SliceArgs ==
    { Arg(OneField(<<>>, SliceOf(TString)), <<v>>) :
         v \in { NilSlice, SliceVal(<<>>), SliceVal(<<Vin, Diesel>>), SliceVal(<< <<>> >>),
                 SliceVal(<< <<>>, Vin >>), SliceVal(<<DefaultNilValue>>),
                 SliceVal(<<Vin, DefaultNilValue>>), SliceVal(<<Str_a_b>>),
                 SliceVal(<<CustomEmpty>>), SliceVal(<<Vin, CustomEmpty>>) } }
    \union { Arg(OneField(<<>>, SliceOf(TInt(0))), <<v>>) :
                v \in { SliceVal(<<1, 2>>), SliceVal(<<0>>), SliceVal(<<-3, 47>>) } }
    \union { Arg(OneField(<<>>, SliceOf(TBool)), <<SliceVal(<<TRUE, FALSE>>)>>),
             Arg(OneField(<<>>, SliceOf(TFloat(64))),
                 <<SliceVal(<<Num(FALSE, <<6, 0, 4, 2, 9>>, 2),
                              Num(FALSE, <<5, 0, 5, 3, 4>>, 2)>>)>>) }
    \union { Arg(OneField(<<>>, SliceOf(PtrTo(TString))), <<v>>) :
                v \in { SliceVal(<< <<>> >>), SliceVal(<< <<>>, <<Vin>> >>),
                        SliceVal(<< << <<>> >>, <<Vin>> >>), SliceVal(<< <<Vin>> >>) } }
    \union { Arg(OneField(<<>>, SliceOf(SliceOf(TString))), <<v>>) :
                v \in { SliceVal(<<SliceVal(<<Vin>>), SliceVal(<<Diesel>>)>>),
                        SliceVal(<<SliceVal(<<Vin, Diesel>>)>>) } }
    \union { Arg(OneField(<<>>, SliceOf(OneField(<<>>, TString))),
                 <<SliceVal(<< <<Henry>> >>)>>) }

\* records with a field of a type with hooks, passed by value and by pointer
HookArgs ==
    { Arg(OneField(<<>>, PtrGetter), << <<DefaultEmptyValue>> >>),
      Arg(OneField(<<>>, PtrGetter), << <<DefaultNilValue>> >>),
      Arg(PtrTo(OneField(<<>>, CsvGetter)), << <<MapVal(<< <<Henry, Vin>> >>)>> >>),
      Arg(OneField(<<>>, AllHooks), << <<TwoThousand>> >>),
      Arg(PtrTo(OneField(<<>>, AllHooks)), << << <<TwoThousand>> >> >>),
      Arg(TimeType, <<EastOfUTC>>),
      Arg(PtrTo(TimeType), << <<WestOfUTC>> >>),
      Arg(OneField(<<>>, PtrTo(Stamp)), << <<TwoThousand>> >>),
      Arg(OneField(<<>>, PtrTo(CsvGetter)), << <<MapVal(<< <<Henry, Vin>> >>)>> >>),
      Arg(OneField(<<>>, PtrTo(CsvGetter)), << <<>> >>),
      Arg(OneField(<<>>, PtrTo(PtrGetter)), << << <<Henry>> >> >>),
      Arg(OneField(<<>>, PtrTo(PtrGetter)), << <<>> >>),
      Arg(OneField(<<>>, SetOnly), <<Henry>>),
      Arg(OneField(<<>>, SetOnly), <<CustomEmpty>>),
      Arg(OneField(<<>>, PtrTo(SetOnly)), << <<Henry>> >>),
      Arg(OneField(<<>>, PtrTo(SetOnly)), << <<CustomEmpty>> >>),
      Arg(OneField(<<>>, PtrTo(SetOnly)), << <<>> >>) }

\* records that embed a record: struct { AnonymousStruct } (encode.go:398-403,
\* decode.go:490-495), an embedded record between two fields, an embedded
\* pointer to a record, and an embedded record of an unexported type
EmbeddingArgs ==
    { Arg(StructOf(<<Embedded(<<"A", "n", "o", "n">>,
                              Named(OneField(<<>>, TString), "Anon", NoHooks))>>),
          << <<Henry>> >>),
      Arg(StructOf(<<Field(<<"C">>, <<>>, TString),
                     Embedded(<<"P", "a", "i", "r">>, Named(PairType, "Pair", NoHooks)),
                     Field(<<"D">>, <<>>, TInt(0))>>),
          <<Diesel, <<Henry, Vin>>, 47>>),
      Arg(StructOf(<<Embedded(<<"P", "a", "i", "r">>,
                              PtrTo(Named(PairType, "Pair", NoHooks))),
                     Field(<<"C">>, <<>>, TString)>>),
          << << <<Henry, Vin>> >>, Diesel>>),
      Arg(StructOf(<<Embedded(<<"p", "a", "i", "r">>, Named(PairType, "pair", NoHooks)),
                     Field(<<"C">>, <<>>, TString)>>),
          << <<Henry, Vin>>, Diesel>>) }

\* struct { F T; N int } with an empty string and with empty slices in F:
\* the row has a second cell, so it is no empty line
TwoFieldArgs ==
    { Arg(StructOf(<<Field(<<"F">>, <<>>, TString), Field(<<"N">>, <<>>, TInt(0))>>),
          << <<>>, 7 >>) }
    \union { Arg(StructOf(<<Field(<<"F">>, <<>>, SliceOf(TString)),
                            Field(<<"N">>, <<>>, TInt(0))>>), <<v, 7>>) :
                v \in { NilSlice, SliceVal(<<>>), SliceVal(<< <<>> >>),
                        SliceVal(<<Vin, Diesel>>) } }

RoundTripArgs ==
    BasicArgs \union ChildArgs \union ScalarArgs \union SliceArgs \union HookArgs
        \union EmbeddingArgs \union TwoFieldArgs

RECURSIVE HeaderFrom(_, _, _)
RECURSIVE FieldPaths(_, _)
\* the header the caller writes for the records of type t: the dotted paths of
\* the cells of fields i and up, in the order Encode writes them
\* (name,age,balance,is_admin: encode.go:288; my.nested.struct: encode.go:273)
HeaderFrom(t, prefix, i) ==
    IF i > Len(t.fields) THEN <<>>
    ELSE FieldPaths(t.fields[i], prefix) \o HeaderFrom(t, prefix, i + 1)

\* the paths of the cells of one field: a field that is a record, or a pointer
\* to one, has a path for each of its cells
FieldPaths(f, prefix) ==
    IF SkipField(f) THEN <<>>
    ELSE IF f.anonymous
    THEN HeaderFrom(IF f.type.k = "ptr" THEN Elem(f.type) ELSE f.type, prefix, 1)
    ELSE IF (IF f.type.k = "ptr" THEN Elem(f.type) ELSE f.type).k = "struct"
            /\ (IF f.type.k = "ptr" THEN Elem(f.type) ELSE f.type).hooks = NoHooks
    THEN HeaderFrom(IF f.type.k = "ptr" THEN Elem(f.type) ELSE f.type,
                    prefix \o FieldName(f) \o <<".">>, 1)
    ELSE <<prefix \o FieldName(f)>>

\* a row the csv.Writer writes as an empty line: no cell, or one empty cell
\* (an empty field is not quoted)
BlankLine(row) == row = <<>> \/ row = << <<>> >>

\* the lines a csv.Reader gives back of the rows written: every row as it was
\* written (a cell with a comma or a quote is quoted by the writer and
\* unquoted by the reader), but for the empty lines, which the reader skips
ReadBack(rows) == SelectSeq(rows, LAMBDA row : ~BlankLine(row))

\* the input a caller reads back: the header of the record type, then the
\* rows the writer took
Written(arg, rows) ==
    LET lines == ReadBack(<<HeaderFrom(RecordType(arg), <<>>, 1)>> \o rows)
    IN  [i \in 1..Len(lines) |-> RowItem(lines[i])]

\* dec := NewDecoder(csv.NewReader(buffer)) over what Encode wrote, to decode
\* it into a new record of the type encoded
ReadWritten ==
    /\ encRet.calls > 0
    /\ ~encRet.panic
    /\ NewDecoder(Written(encRet.arg, writer.rows), RecordType(encRet.arg),
                  Zero(RecordType(encRet.arg)))

\* a caller that encodes records of one type, then reads them back
RoundTripNext ==
    \/ \E arg \in RoundTripArgs : \E ord \in MapOrders(arg.t), fail \in BOOLEAN :
           /\ encRet.calls < MaxRecords
           /\ encRet.calls > 0 => arg.t = encRet.arg.t
           /\ Encode(arg, ord, fail)
    \/ \E s \in {DefaultEmptyValue, CustomEmpty} : EncSetEmptyValue(s)
    \/ \E s \in {DefaultNilValue, CustomNil} : EncSetNilValue(s)
    \/ ReadWritten
    \/ \E s \in DecEmptyValues : DecSetEmptyValue(s)
    \/ \E s \in DecNilValues : DecSetNilValue(s)
    \/ Decode

(***************************************************************************)
(* Properties of encoding and decoding back                                *)
(***************************************************************************)

\* Encode wrote the row of its argument and Decode read it, with the
\* sentinels of the Encoder
RoundTripped ==
    /\ encRet.calls = 1 /\ encRet.wrote
    /\ decRet.calls = 1 /\ decRet.read
    /\ decRet.dec.EmptyValue = encRet.enc.EmptyValue
    /\ decRet.dec.NilValue = encRet.enc.NilValue

DefaultSentinels(c) ==
    c.EmptyValue = DefaultEmptyValue /\ c.NilValue = DefaultNilValue

\* Encode wrote the row of its argument and Decode was called on what the
\* writer took, with the sentinels of the Encoder
WrittenAndDecoded ==
    /\ encRet.calls = 1 /\ encRet.wrote
    /\ decRet.calls = 1
    /\ decRet.dec.EmptyValue = encRet.enc.EmptyValue
    /\ decRet.dec.NilValue = encRet.enc.NilValue

\* Decode found no row to read: the reader was at the end of the input
NothingRead ==
    /\ ~decRet.read
    /\ decRet.err = ErrorOf("EOF", 0)
    /\ target.v = decRet.before

\* the argument is a record of fields of kind bool, int, float or string
IsScalarArg(arg) ==
    /\ arg.t.k = "struct" /\ Len(arg.t.fields) >= 1
    /\ \A i \in 1..Len(arg.t.fields) :
          /\ arg.t.fields[i].tag = <<>>
          /\ arg.t.fields[i].type.k \in {"bool", "int", "float", "string"}
          /\ arg.t.fields[i].type.hooks = NoHooks

ScalarRoundTripped ==
    /\ RoundTripped /\ IsScalarArg(encRet.arg)
    /\ DefaultSentinels(encRet.enc) /\ DefaultSentinels(decRet.dec)

\* field i of the argument is the string s
IsString(arg, i, str) ==
    arg.t.fields[i].type.k = "string" /\ arg.v[i] = str

\* C3 as stated: for every scalar value x (boolean, integer and float of each
\* width, string), encoding x as a record field and decoding the cell into a
\* field of the same type yields x, under the default sentinels
C3_ScalarRoundTrip ==
    ScalarRoundTripped => (decRet.err = NoError /\ target.v = encRet.arg.v)

\* C3: for every scalar value x other than the string that equals NilValue,
\* encoding x as a record field and decoding the cell into a field of the same
\* type yields x, under the default sentinels; the string NULL comes back as
\* "". The row of a record whose only field is the string "" is an empty line,
\* which is not read back: Decode returns io.EOF and leaves the field at "".
C3_ScalarRoundTripButNil ==
    (/\ WrittenAndDecoded /\ IsScalarArg(encRet.arg)
     /\ DefaultSentinels(encRet.enc) /\ DefaultSentinels(decRet.dec)) =>
        IF BlankLine(encRet.out)
        THEN /\ IsString(encRet.arg, 1, <<>>)
             /\ NothingRead
             /\ target.v = encRet.arg.v
        ELSE /\ decRet.read
             /\ decRet.err = NoError
             /\ \A i \in 1..Len(target.v) :
                   IF IsString(encRet.arg, i, DefaultNilValue)
                   THEN target.v[i] = DefaultEmptyValue
                   ELSE target.v[i] = encRet.arg.v[i]

\* the float64 60.429 of the tests went out as the cell 60.429 and came back
C3_Witness ==
    /\ ScalarRoundTripped
    /\ encRet.arg.t = OneField(<<>>, TFloat(64))
    /\ encRet.arg.v = <<Num(FALSE, <<6, 0, 4, 2, 9>>, 2)>>
    /\ encRet.out = << <<"6", "0", ".", "4", "2", "9">> >>
    /\ target.v = encRet.arg.v

\* C5: encoding a record whose pointer field of type struct{A, B} is nil
\* yields exactly two NilValue cells, and decoding a row with those cells
\* under f.a and f.b into a record whose field is nil leaves the field nil
C5_NilRecordRoundTrip ==
    (/\ RoundTripped
     /\ encRet.arg.t = OneField(<<>>, PtrTo(PairType))
     /\ encRet.arg.v = << <<>> >>) =>
        /\ encRet.out = <<encRet.enc.NilValue, encRet.enc.NilValue>>
        /\ decRet.dec.header = << <<"f", ".", "a">>, <<"f", ".", "b">> >>
        /\ decRet.before = << <<>> >>
        /\ target.v = << <<>> >>

\* the argument is a record whose first field is a slice, alone or before an
\* int
IsSliceArg(arg) ==
    /\ arg.t.k = "struct" /\ Len(arg.t.fields) \in {1, 2}
    /\ arg.t.fields[1].tag = <<>>
    /\ arg.t.fields[1].type.k = "slice"
    /\ Len(arg.t.fields) = 2 => arg.t.fields[2].type = TInt(0)

\* what each element of slice v of type t encodes to, its cells joined
ElementCells(enc, t, v) ==
    [i \in 1..Len(v.elems) |->
        Join(marshal(enc, Elem(t), v.elems[i], FALSE, TRUE, "fwd").out, <<",">>)]

\* the slice of the last Encode went to the writer and Decode read its row,
\* and no element had a comma in what it encodes to
SliceRoundTripped ==
    /\ RoundTripped /\ IsSliceArg(encRet.arg)
    /\ \A i \in 1..Len(encRet.arg.v[1].elems) :
           IndexOf(ElementCells(encRet.enc, encRet.arg.t.fields[1].type,
                                encRet.arg.v[1])[i], ",") = 0

\* the slice went out as one cell, the join of its elements
SliceJoined ==
    /\ Len(encRet.out) = Len(encRet.arg.t.fields)
    /\ encRet.out[1] = Join(ElementCells(encRet.enc, encRet.arg.t.fields[1].type,
                                         encRet.arg.v[1]), <<",">>)

\* the slice came as one cell, the join of its elements, and came back with
\* the same elements in the same order
SliceCameBack ==
    /\ SliceJoined
    /\ decRet.err = NoError
    /\ target.v[1].elems = encRet.arg.v[1].elems

\* C7 as stated: for every sequence field whose elements contain no comma,
\* encoding yields one cell, the elements' encodings joined by commas, and
\* decoding that cell into a field of the same type yields the same sequence
C7_SequenceRoundTrip == SliceRoundTripped => SliceCameBack

\* the cell c of element e of type t is no sentinel, or the sentinel of e:
\* NilValue for a nil pointer, EmptyValue for a zero value or a pointer to one
OwnSentinel(enc, t, e, c) ==
    /\ c = enc.NilValue => (t.k = "ptr" /\ e = <<>>)
    /\ (c # enc.NilValue /\ c = enc.EmptyValue) =>
           IF t.k = "ptr" THEN e = <<Zero(Elem(t))>> ELSE e = Zero(t)

\* the elements are scalars or pointers to scalars
ScalarElements(t) ==
    (IF Elem(t).k = "ptr" THEN Elem(Elem(t)) ELSE Elem(t)).k
        \in {"bool", "int", "float", "string"}

\* the cell of the slice is no sentinel and has an element to split off, or
\* the slice is empty and its cell, the empty string, is the EmptyValue
SplitsBack(enc, cells) ==
    IF Len(cells) = 0 THEN Join(cells, <<",">>) = enc.EmptyValue
    ELSE Join(cells, <<",">>) \notin {enc.EmptyValue, enc.NilValue}

\* the slice of the last Encode went to the writer and Decode was called on
\* what the writer took, and no element had a comma in what it encodes to
SliceWritten ==
    /\ WrittenAndDecoded /\ IsSliceArg(encRet.arg)
    /\ \A i \in 1..Len(encRet.arg.v[1].elems) :
           IndexOf(ElementCells(encRet.enc, encRet.arg.t.fields[1].type,
                                encRet.arg.v[1])[i], ",") = 0

\* C7: a sequence of scalars or of pointers to scalars, none with a comma in
\* its encoding, encodes to one cell, the elements' encodings joined by
\* commas, and decodes back to the same sequence, provided the cell is no
\* sentinel and no element encodes to a sentinel that does not stand for it.
\* When the cell is empty and the only cell of its row, the row is an empty
\* line, which is not read back: Decode returns io.EOF and the field is left
\* as it was.
C7_SequenceRoundTripNoSentinel ==
    (/\ SliceWritten
     /\ ScalarElements(encRet.arg.t.fields[1].type)
     /\ \A i \in 1..Len(encRet.arg.v[1].elems) :
            OwnSentinel(encRet.enc, Elem(encRet.arg.t.fields[1].type),
                        encRet.arg.v[1].elems[i],
                        ElementCells(encRet.enc, encRet.arg.t.fields[1].type,
                                     encRet.arg.v[1])[i]))
    => /\ SliceJoined
       /\ IF BlankLine(encRet.out) THEN NothingRead
          ELSE /\ decRet.read
               /\ SplitsBack(encRet.enc,
                             ElementCells(encRet.enc, encRet.arg.t.fields[1].type,
                                          encRet.arg.v[1]))
                     => SliceCameBack

\* ["vin", "diesel"] went out as vin,diesel and came back
C7_Witness ==
    /\ SliceRoundTripped
    /\ encRet.arg.t = OneField(<<>>, SliceOf(TString))
    /\ encRet.arg.v = <<SliceVal(<<Vin, Diesel>>)>>
    /\ encRet.out = << Vin \o <<",">> \o Diesel >>
    /\ target.v = <<SliceVal(<<Vin, Diesel>>)>>

\* type t has the hook, declared on t or on the type t points to
ExposesHook(t, hook) ==
    \/ t.hooks[hook] # "none"
    \/ (t.k = "ptr" /\ Elem(t).hooks[hook] # "none")

\* the last Encode marshalled a record of one field whose type has a GetCSV
MarshalledGetter ==
    /\ encRet.calls = 1 /\ encRet.via # "sticky"
    /\ Len(RecordType(encRet.arg).fields) = 1
    /\ ExposesHook(RecordType(encRet.arg).fields[1].type, "getter")

\* and marshal returned its cells (the only error left is one of the writer)
EncodedGetter ==
    MarshalledGetter /\ ~encRet.panic /\ encRet.err.what \in {"", "write"}

\* the last Decode read a cell into a record of one field whose type has a
\* SetCSV
DecodedSetter ==
    /\ decRet.calls = 1 /\ decRet.read /\ ~decRet.panic /\ decRet.err = NoError
    /\ Len(target.t.fields) = 1
    /\ Len(decRet.row) = 1
    /\ ExposesHook(target.t.fields[1].type, "setter")

\* C9 as stated: a value whose type exposes GetCSV is always encoded by
\* calling it, and a field whose type exposes SetCSV is always decoded by
\* calling it with the cell, before text conversion and structural handling
C9_HookAlwaysUsed ==
    /\ EncodedGetter => encRet.sub = <<"GetCSV">>
    /\ DecodedSetter => decRet.sub = <<"SetCSV">>

\* GetCSV is in reach of marshal: declared on the value, or on the pointer
\* with the field a pointer or the record passed to Encode by pointer
GetterInReach(arg) ==
    \/ RecordType(arg).fields[1].type.k = "ptr"
    \/ RecordType(arg).fields[1].type.hooks.getter = "value"
    \/ arg.t.k = "ptr"

\* the field is a nil pointer to a type whose GetCSV has a value receiver
GetterOnNil(arg) ==
    /\ RecordType(arg).fields[1].type.k = "ptr"
    /\ Elem(RecordType(arg).fields[1].type).hooks.getter = "value"
    /\ RecordValue(arg)[1] = <<>>

\* the field of type t that held before, after the setter-typed cell was
\* read into it: a cell equal to NilValue leaves the field as it was; any
\* other cell first points a pointer field to a new zero value; a cell equal
\* to EmptyValue then leaves that value at zero, and any other cell is handed
\* to SetCSV
SetterFieldAfter(dec, t, before, cell) ==
    IF cell = dec.NilValue THEN [sub |-> <<"nil">>, v |-> before]
    ELSE IF cell = dec.EmptyValue
    THEN [sub |-> <<"empty">>, v |-> IF t.k = "ptr" THEN <<Zero(Elem(t))>> ELSE before]
    ELSE [sub |-> <<"SetCSV">>,
          v |-> IF t.k = "ptr" THEN <<SetCSVValue(Elem(t))>> ELSE SetCSVValue(t)]

\* C9: a value whose type exposes GetCSV is encoded by calling it when the
\* method is in reach (declared on the value, or on the pointer and the value
\* is addressable or a pointer) and structurally otherwise, and the call
\* panics when a value-receiver GetCSV is reached through a nil pointer; a
\* field whose type exposes SetCSV is decoded by calling it with the cell
\* unless the cell is NilValue (the field stays as it was) or EmptyValue (the
\* field stays as it was, a pointer field points to a new zero value); both
\* before text conversion and structural handling
C9_HookUsedWhenInReach ==
    /\ MarshalledGetter =>
           IF GetterOnNil(encRet.arg) THEN encRet.panic /\ encRet.via = "GetCSV"
           ELSE /\ EncodedGetter
                /\ encRet.sub = <<"GetCSV">> <=> GetterInReach(encRet.arg)
                /\ encRet.sub = <<"GetCSV">> => encRet.out = GetCSVOutput
    /\ DecodedSetter =>
           /\ decRet.sub = SetterFieldAfter(decRet.dec, target.t.fields[1].type,
                                            decRet.before[1], decRet.row[1]).sub
           /\ target.v[1] = SetterFieldAfter(decRet.dec, target.t.fields[1].type,
                                             decRet.before[1], decRet.row[1]).v

\* a csvgetter was encoded by GetCSV and decoded by SetCSV
C9_Witness ==
    /\ EncodedGetter /\ DecodedSetter
    /\ target.t.fields[1].type = CsvGetter
    /\ encRet.sub = <<"GetCSV">> /\ encRet.out = GetCSVOutput
    /\ decRet.sub = <<"SetCSV">> /\ target.v = <<SetCSVValue(CsvGetter)>>

\* the record type has a field that embeds a record
Embeds(t) ==
    /\ t.k = "struct"
    /\ \E i \in 1..Len(t.fields) : t.fields[i].anonymous /\ ~SkipField(t.fields[i])

RECURSIVE SpliceFields(_, _)
\* the fields i and up of a record, with the fields of each embedded record
\* in the place of the embedded field
SpliceFields(fields, i) ==
    IF i > Len(fields) THEN <<>>
    ELSE (IF fields[i].anonymous /\ ~SkipField(fields[i])
          THEN SpliceFields((IF fields[i].type.k = "ptr" THEN Elem(fields[i].type)
                             ELSE fields[i].type).fields, 1)
          ELSE <<fields[i]>>)
         \o SpliceFields(fields, i + 1)

RECURSIVE SpliceValues(_, _, _)
\* the values of those fields in the record v
SpliceValues(fields, v, i) ==
    IF i > Len(fields) THEN <<>>
    ELSE (IF fields[i].anonymous /\ ~SkipField(fields[i])
          THEN IF fields[i].type.k = "ptr"
               THEN SpliceValues(Elem(fields[i].type).fields,
                                 IF v[i] = <<>> THEN Zero(Elem(fields[i].type)) ELSE v[i][1],
                                 1)
               ELSE SpliceValues(fields[i].type.fields, v[i], 1)
          ELSE <<v[i]>>)
         \o SpliceValues(fields, v, i + 1)

\* the record type with its embedded records spliced in
Spliced(t) == StructOf(SpliceFields(t.fields, 1))

\* Encode was called with a record that embeds a record
EncodedEmbedding ==
    /\ encRet.calls > 0 /\ encRet.via # "sticky"
    /\ Embeds(encRet.arg.t)

\* Decode read a row into a record that embeds a record
DecodedEmbedding ==
    /\ decRet.calls > 0 /\ decRet.read
    /\ Embeds(target.t)

\* C11: a record that embeds a record encodes the fields of the embedded
\* record in place among the cells of the parent, and Decode reads the fields
\* of the embedded record from the cells under their own names in the node of
\* the parent: both as for the record with the embedded fields spliced in.
C11_EmbeddedSplice ==
    /\ EncodedEmbedding =>
          /\ ~encRet.panic
          /\ encRet.out = marshal(encRet.enc, Spliced(encRet.arg.t),
                                  SpliceValues(encRet.arg.t.fields, encRet.arg.v, 1),
                                  FALSE, FALSE, "fwd").out
    /\ DecodedEmbedding =>
          /\ ~decRet.panic
          /\ SpliceValues(target.t.fields, target.v, 1)
                = readStructTo(decRet.dec, Spliced(target.t),
                               SpliceValues(target.t.fields, decRet.before, 1),
                               BuildCellValues(EmptyCellValues, decoder.header,
                                               decRet.row, 1).vs).out

(***************************************************************************)
(* The specifications: one program each                                    *)
(***************************************************************************)

\* a caller building a CellValues with Set
InitTree == TreeIdle /\ EncInit /\ DecIdle
SpecTree == InitTree /\ [][TreeNext]_vars

\* a caller encoding one record after the other with one Encoder
InitEnc == EncInit /\ TreeIdle /\ DecIdle
SpecEnc == InitEnc /\ [][EncNext(BasicArgs \union FailingArgs, MaxEncodes)]_vars

\* a caller encoding a record of any of the record types
InitRecord == EncInit /\ TreeIdle /\ DecIdle
SpecRecord == InitRecord /\ [][EncNext(EncodeArgs, MaxRecords)]_vars

\* a caller decoding the rows of an input into one record
InitDec == DecIdle /\ EncInit /\ TreeIdle
SpecDec == InitDec /\ [][DecNext(DecInputs)]_vars

\* a caller encoding a record and decoding the row back into a new record
InitRoundTrip == EncInit /\ DecIdle /\ TreeIdle
SpecRoundTrip == InitRoundTrip /\ [][RoundTripNext]_vars

====
